---------------------------- MODULE Spec2Model ----------------------------
(***************************************************************************)
(* Expression search with a two-variable expression JIT (exprsearch).      *)
(*                                                                         *)
(* The model follows src/src/lib.rs (operator table, Expr, semantic        *)
(* PartialEq / Hash, naive_eval), src/src/jit.rs (x86-64 and AArch64 code  *)
(* generators, modelled at the level of the emitted instructions and       *)
(* executed by a small machine interpreter), src/src/params.rs             *)
(* (configuration) and src/src/main.rs (enumerator and search driver).     *)
(*                                                                         *)
(* NumT is i64 in the program.  TLC's integers are 32 bits wide, so the    *)
(* machine word is scaled to WORD bits: every wrap of the program is a     *)
(* wrap modulo 2^WORD here, MinInt stands for i64::MIN, MaxInt for         *)
(* i64::MAX, and a shift count is reduced modulo WORD as the hardware      *)
(* reduces it modulo 64.                                                   *)
(***************************************************************************)
EXTENDS Integers, Sequences, FiniteSets, TLC

WORD == 12

Pow2(n) == 2 ^ n
MinInt == -Pow2(WORD - 1)
MaxInt == Pow2(WORD - 1) - 1

\* Arithmetic that stops at the ends of the word instead of wrapping.
Saturate(v) == IF v > MaxInt THEN MaxInt ELSE IF v < MinInt THEN MinInt ELSE v

\* Two's-complement wrap of an unbounded integer into the machine word.
Wrap(v) ==
    LET m == v % Pow2(WORD)
    IN  IF m >= Pow2(WORD - 1) THEN m - Pow2(WORD) ELSE m

\* The unsigned reading of a machine word.
Unsigned(v) == v % Pow2(WORD)

Abs(v) == IF v < 0 THEN -v ELSE v

\* A quotient rounded toward minus infinity.
FloorDiv(l, r) == IF r > 0 THEN l \div r ELSE (-l) \div (-r)

\* Rust's `/` and `%` on i64: truncation toward zero, remainder with the
\* sign of the dividend (callers exclude r = 0 and MinInt / -1).
TruncDiv(l, r) ==
    LET q == Abs(l) \div Abs(r)
    IN  IF (l < 0) = (r < 0) THEN q ELSE -q

TruncRem(l, r) ==
    LET m == Abs(l) % Abs(r)
    IN  IF l < 0 THEN -m ELSE m

RECURSIVE BitwiseU(_, _, _, _)
\* Bitwise combination of two unsigned words, bit by bit; f is "and",
\* "or" or "xor".
BitwiseU(f, a, b, n) ==
    IF n = 0 THEN 0
    ELSE LET ba == a % 2
             bb == b % 2
             bit == CASE f = "and" -> IF ba = 1 /\ bb = 1 THEN 1 ELSE 0
                      [] f = "or"  -> IF ba = 1 \/ bb = 1 THEN 1 ELSE 0
                      [] OTHER     -> IF ba # bb THEN 1 ELSE 0
         IN  bit + 2 * BitwiseU(f, a \div 2, b \div 2, n - 1)

BitAnd(a, b) == Wrap(BitwiseU("and", Unsigned(a), Unsigned(b), WORD))
BitOr(a, b)  == Wrap(BitwiseU("or", Unsigned(a), Unsigned(b), WORD))
BitXor(a, b) == Wrap(BitwiseU("xor", Unsigned(a), Unsigned(b), WORD))
BitNot(a)    == -a - 1

\* Shift count as the hardware takes it (count mod word size).
ShiftCount(r) == r % WORD

\* l << r and l >> r (arithmetic) with the count reduced by the hardware.
Shl(l, r) == Wrap(Unsigned(l) * Pow2(ShiftCount(r)))
Sar(l, r) == l \div Pow2(ShiftCount(r))


(***************************************************************************)
(* lib.rs: operator table and expression tree                              *)
(***************************************************************************)

\* enum Operator (repr(u8)): the code is the precedence ordinal.
Operator ==
    [ AssignEq |-> \h00, BitOrEq |-> \h01, BitXorEq |-> \h02, BitAndEq |-> \h03,
      BitShlEq |-> \h04, BitShrEq |-> \h05, AddEq |-> \h06, SubEq |-> \h07,
      MulEq |-> \h08, DivEq |-> \h09, ModEq |-> \h0A,
      Or |-> \h20, And |-> \h30, BitOr |-> \h40, BitXor |-> \h50, BitAnd |-> \h60,
      Eq |-> \h70, Neq |-> \h71, Lt |-> \h80, Leq |-> \h81, Gt |-> \h82, Geq |-> \h83,
      BitShl |-> \h90, BitShr |-> \h91, Add |-> \hA0, Sub |-> \hA1,
      Mul |-> \hB0, Div |-> \hB1, Mod |-> \hB2, Pow |-> \hB3,
      Neg |-> \hC0, BitNot |-> \hC1, Not |-> \hC2, PreInc |-> \hC3, PreDec |-> \hC4,
      PostInc |-> \hD0, PostDec |-> \hD1, Parens |-> \hE0,
      Var |-> \hF0, VarY |-> \hF1, Literal |-> \hFF ]

\* Option::None for a child.
None == [op |-> -1]

\* struct Expr { left, right, literal, op, jit }; jit is TRUE when the node
\* carries a compiled buffer (Some(Arc<Jit>)), FALSE when it is None.
Expr(left, right, literal, op, jit) ==
    [left |-> left, right |-> right, literal |-> literal, op |-> op, jit |-> jit]

\* A node without children: a variable or a literal.
IsLeaf(e) == e.op \in {Operator.Var, Operator.VarY, Operator.Literal}

\* Expr::is_assignment
is_assignment(e) == e.op < \h10

\* The eleven assignment arms of naive_eval: [v |-> the new value of the
\* target, fatal |-> TRUE when /= or %= refuses to divide and writes nothing].
AssignApply(op, t, r) ==
    LET ok(v) == [v |-> v, fatal |-> FALSE]
        bad   == [v |-> 0, fatal |-> TRUE]
    IN  CASE op = Operator.AssignEq -> ok(r)
          [] op = Operator.BitOrEq  -> ok(BitOr(t, r))
          [] op = Operator.BitXorEq -> ok(BitXor(t, r))
          [] op = Operator.BitAndEq -> ok(BitAnd(t, r))
          [] op = Operator.BitShlEq -> ok(Shl(t, r))
          [] op = Operator.BitShrEq -> ok(Sar(t, r))
          [] op = Operator.AddEq    -> ok(Wrap(t + r))
          [] op = Operator.SubEq    -> ok(Wrap(t - r))
          [] op = Operator.MulEq    -> ok(Wrap(t * r))
          [] op = Operator.DivEq    ->
                IF r = 0 \/ (t = MinInt /\ r = -1) THEN bad ELSE ok(TruncDiv(t, r))
          [] op = Operator.ModEq    ->
                IF r = 0 \/ (t = MinInt /\ r = -1) THEN bad ELSE ok(TruncRem(t, r))

\* u32::MAX, the largest exponent u32::try_from accepts: half the word.
U32_MAX == Pow2(WORD \div 2) - 1

RECURSIVE CheckedPowAcc(_, _, _)
\* i64::checked_pow by repeated multiplication: [ok |-> FALSE] as soon as a
\* product leaves the word.
CheckedPowAcc(acc, base, exp) ==
    IF exp = 0 THEN [ok |-> TRUE, v |-> acc]
    ELSE LET p == acc * base
         IN  IF p < MinInt \/ p > MaxInt THEN [ok |-> FALSE, v |-> 0]
             ELSE CheckedPowAcc(p, base, exp - 1)

checked_pow(base, exp) ==
    CASE base = 0  -> [ok |-> TRUE, v |-> IF exp = 0 THEN 1 ELSE 0]
      [] base = 1  -> [ok |-> TRUE, v |-> 1]
      [] base = -1 -> [ok |-> TRUE, v |-> IF exp % 2 = 0 THEN 1 ELSE -1]
      [] OTHER     -> IF exp > WORD THEN [ok |-> FALSE, v |-> 0]
                      ELSE CheckedPowAcc(1, base, exp)

\* The value arms of naive_eval for operators that do not write a variable:
\* [v |-> value, fatal |-> whether the arm sets *fatal].
ValueApply(op, l, r, literal) ==
    LET ok(v) == [v |-> v, fatal |-> FALSE]
        bad   == [v |-> 0, fatal |-> TRUE]
        b(c)  == ok(IF c THEN 1 ELSE 0)
    IN  CASE op = Operator.Or     -> b(l # 0 \/ r # 0)
          [] op = Operator.And    -> b(l # 0 /\ r # 0)
          [] op = Operator.BitOr  -> ok(BitOr(l, r))
          [] op = Operator.BitXor -> ok(BitXor(l, r))
          [] op = Operator.BitAnd -> ok(BitAnd(l, r))
          [] op = Operator.Eq     -> b(l = r)
          [] op = Operator.Neq    -> b(l # r)
          [] op = Operator.Lt     -> b(l < r)
          [] op = Operator.Leq    -> b(l <= r)
          [] op = Operator.Gt     -> b(l > r)
          [] op = Operator.Geq    -> b(l >= r)
          [] op = Operator.BitShl -> ok(Shl(l, r))
          [] op = Operator.BitShr -> ok(Sar(l, r))
          [] op = Operator.Add    -> ok(Wrap(l + r))
          [] op = Operator.Sub    -> ok(Wrap(l - r))
          [] op = Operator.Mul    -> ok(Wrap(l * r))
          [] op = Operator.Div    ->
                IF r = 0 \/ (l = MinInt /\ r = -1) THEN bad ELSE ok(TruncDiv(l, r))
          [] op = Operator.Mod    ->
                IF r = 0 \/ (l = MinInt /\ r = -1) THEN bad ELSE ok(TruncRem(l, r))
          [] op = Operator.Pow    ->
                IF r < 0
                THEN CASE l = 0  -> bad
                       [] l = 1  -> ok(1)
                       [] l = -1 -> ok(IF r % 2 = 0 THEN 1 ELSE -1)
                       [] OTHER  -> ok(0)
                ELSE IF r > U32_MAX THEN bad
                ELSE LET p == checked_pow(l, r)
                     IN  IF p.ok THEN ok(p.v) ELSE bad
          [] op = Operator.Neg    -> ok(Wrap(-r))
          [] op = Operator.BitNot -> ok(BitNot(r))
          [] op = Operator.Not    -> b(r = 0)
          [] op = Operator.Parens -> ok(r)
          [] op = Operator.Literal -> ok(literal)

\* The end of an arm that writes the variable: the new value v of x (tx) or
\* of y, and val as the value of the expression, after R.
naive_set(R, tx, v, val) ==
    IF tx THEN [v |-> val, x |-> v, y |-> R.y, fatal |-> R.fatal]
    ELSE [v |-> val, x |-> R.x, y |-> v, fatal |-> R.fatal]

\* An assignment arm once the operator has been applied (n): nothing is
\* written and 0 is returned when it was fatal.
naive_assign(R, tx, n) ==
    IF n.fatal THEN [v |-> 0, x |-> R.x, y |-> R.y, fatal |-> TRUE]
    ELSE naive_set(R, tx, n.v, n.v)

\* A value arm once the operator has been applied (a).
naive_value(R, a) == [v |-> a.v, x |-> R.x, y |-> R.y, fatal |-> R.fatal \/ a.fatal]

\* The match on e.op, L and R being what the children returned and left.
naive_eval_op(e, L, R) ==
    CASE is_assignment(e) ->
           naive_assign(R, e.left # None /\ e.left.op = Operator.Var,
                        AssignApply(e.op,
                                    IF e.left # None /\ e.left.op = Operator.Var
                                    THEN R.x ELSE R.y,
                                    R.v))
      [] e.op \in {Operator.PreInc, Operator.PreDec,
                   Operator.PostInc, Operator.PostDec} ->
           LET target_is_x == e.right # None /\ e.right.op = Operator.Var
               t == IF target_is_x THEN R.x ELSE R.y
               d == IF e.op \in {Operator.PreInc, Operator.PostInc} THEN 1 ELSE -1
               n == Wrap(t + d)
           IN  naive_set(R, target_is_x, n,
                         IF e.op \in {Operator.PreInc, Operator.PreDec} THEN n ELSE t)
      [] e.op = Operator.Var  -> [v |-> R.x, x |-> R.x, y |-> R.y, fatal |-> R.fatal]
      [] e.op = Operator.VarY -> [v |-> R.y, x |-> R.x, y |-> R.y, fatal |-> R.fatal]
      [] OTHER -> naive_value(R, ValueApply(e.op, L.v, R.v, e.literal))

RECURSIVE naive_eval(_, _, _, _)
\* The right child, evaluated from what the left child left behind.
naive_eval_right(e, L) ==
    naive_eval_op(e, L,
        IF e.right # None THEN naive_eval(e.right, L.x, L.y, L.fatal)
        ELSE [v |-> 0, x |-> L.x, y |-> L.y, fatal |-> L.fatal])

\* naive_eval(e, &mut x, &mut y, &mut fatal): the value returned and the
\* values left in x, y and fatal.  Left child first, then right, then op.
naive_eval(e, x, y, fatal) ==
    naive_eval_right(e,
        IF e.left # None THEN naive_eval(e.left, x, y, fatal)
        ELSE [v |-> 0, x |-> x, y |-> y, fatal |-> fatal])


(***************************************************************************)
(* jit.rs: what a compiled function runs on.  The two words x and y live   *)
(* at AddrX and AddrY in the caller's frame; AddrScratch is one more       *)
(* writable word of the process (any other address is unmapped and an      *)
(* access to it ends the process with a fault).                            *)
(***************************************************************************)
AddrX       == Pow2(WORD - 2)
AddrY       == Pow2(WORD - 2) + 8
AddrScratch == Pow2(WORD - 2) + 16

\* The memory a call sees: x and y as the caller set them.
Mem(x, y) == (AddrX :> x) @@ (AddrY :> y) @@ (AddrScratch :> 0)

\* Instruction budget of one call, 2^RunDepth; the longest loop-free body is
\* far below it, and only the ** loop can use more (st = "hang").
RunDepth == 7

\* Result of emitting code: the instructions, the register index after
\* them, and ok = FALSE when the generator itself panics (index out of
\* bounds on FREE_REGS / CALL_REGS, unwrap of a missing child).
Gen(code, regind, ok) == [code |-> code, regind |-> regind, ok |-> ok]

(***************************************************************************)
(* jit.rs, mod aarch64                                                     *)
(***************************************************************************)
XZR == 31
a64_CALL_REGS == <<0, 1>>
a64_FREE_REGS == <<9, 10, 11, 12, 13, 14, 15>>

\* One emitted instruction word; f is the name of the emitter that wrote it.
a64_ins(f, rd, rn, rm, imm) == [f |-> f, rd |-> rd, rn |-> rn, rm |-> rm, imm |-> imm]

\* mov_imm: MOVZ, MOVN, or MOVZ followed by MOVKs (one model instruction,
\* no branch of the generator spans a literal load).
a64_mov_imm(dest, imm) ==
    IF imm >= 0 /\ imm <= 65535
    THEN <<a64_ins("movz", dest, XZR, XZR, imm)>>
    ELSE IF imm < 0 /\ BitNot(imm) <= 65535
    THEN <<a64_ins("movn", dest, XZR, XZR, BitNot(imm))>>
    ELSE <<a64_ins("movz_movk", dest, XZR, XZR, imm)>>

\* cset: CSINC Rd, XZR, XZR, cond ^ 1 (the condition code sits in imm).
a64_cset(rd, cond) ==
    a64_ins("csinc", rd, XZR, XZR, IF cond % 2 = 0 THEN cond + 1 ELSE cond - 1)

a64_free(i) == IF i >= 0 /\ i < Len(a64_FREE_REGS) THEN a64_FREE_REGS[i + 1] ELSE XZR
a64_call(i) == IF i >= 0 /\ i < Len(a64_CALL_REGS) THEN a64_CALL_REGS[i + 1] ELSE XZR
a64_free_ok(i) == i >= 0 /\ i < Len(a64_FREE_REGS)
a64_call_ok(i) == i >= 0 /\ i < Len(a64_CALL_REGS)

RECURSIVE a64_gen_expr(_, _)
\* aarch64::Jit::gen_expr
a64_gen_expr(e, regind) ==
    LET I(f, rd, rn, rm) == a64_ins(f, rd, rn, rm, 0)
        B(f, cond, off)  == a64_ins(f, XZR, XZR, cond, off)
        X0 == 0  X16 == 16  X17 == 17  X18 == 18
        mov(rd, rm) == I("orr", rd, rm, XZR)
    IN
    CASE e.op = Operator.Literal ->
           Gen(a64_mov_imm(a64_free(regind), e.literal), regind + 1, a64_free_ok(regind))
      [] e.op \in {Operator.Var, Operator.VarY} ->
           LET reg_idx == e.op % 16
           IN  Gen(<<I("ldr", a64_free(regind), a64_call(reg_idx), XZR)>>, regind + 1,
                   a64_free_ok(regind) /\ a64_call_ok(reg_idx))
      [] e.op \in {Operator.PreInc, Operator.PreDec, Operator.PostInc, Operator.PostDec} ->
           IF e.right = None THEN Gen(<<>>, regind, FALSE)
           ELSE
           LET reg_idx == e.right.op % 16
               ptr == a64_call(reg_idx)
               tmp == a64_free(regind)
               f   == IF e.op \in {Operator.PreInc, Operator.PostInc} THEN "add" ELSE "sub"
               body == IF e.op \in {Operator.PreInc, Operator.PreDec}
                       THEN <<I(f, tmp, tmp, X16), I("str", tmp, ptr, XZR)>>
                       ELSE <<I(f, X16, tmp, X16), I("str", X16, ptr, XZR)>>
           IN  Gen(<<I("ldr", tmp, ptr, XZR)>> \o a64_mov_imm(X16, 1) \o body, regind + 1,
                   a64_free_ok(regind) /\ a64_call_ok(reg_idx))
      [] e.left = None \/ is_assignment(e) ->
           IF e.right = None THEN Gen(<<>>, regind, FALSE)
           ELSE
           LET r  == a64_gen_expr(e.right, regind)
               rr == a64_free(r.regind - 1)
               ptr == a64_call(e.left.op % 16)
               tmp == X16
               rmw(f) == <<I("ldr", tmp, ptr, XZR), I(f, tmp, tmp, rr),
                           I("str", tmp, ptr, XZR), mov(rr, tmp)>>
               tail ==
                 IF e.left # None
                 THEN CASE e.op = Operator.AssignEq -> <<I("str", rr, ptr, XZR)>>
                        [] e.op = Operator.BitOrEq  -> rmw("orr")
                        [] e.op = Operator.BitXorEq -> rmw("eor")
                        [] e.op = Operator.BitAndEq -> rmw("and")
                        [] e.op = Operator.BitShlEq -> rmw("lslv")
                        [] e.op = Operator.BitShrEq -> rmw("asrv")
                        [] e.op = Operator.AddEq    -> rmw("add")
                        [] e.op = Operator.SubEq    -> rmw("sub")
                        [] e.op = Operator.MulEq    -> rmw("mul")
                        [] e.op \in {Operator.DivEq, Operator.ModEq} ->
                             <<I("cmp", XZR, rr, XZR), B("b_cond", 1, 3),
                               mov(X0, XZR), I("ret", XZR, XZR, XZR),
                               I("ldr", tmp, ptr, XZR), I("sdiv", X17, tmp, rr)>>
                             \o (IF e.op = Operator.ModEq
                                 THEN <<I("mul", X18, X17, rr), I("sub", tmp, tmp, X18)>>
                                 ELSE <<mov(tmp, X17)>>)
                             \o <<I("str", tmp, ptr, XZR), mov(rr, tmp)>>
                        [] OTHER -> <<>>
                 ELSE CASE e.op = Operator.Neg    -> <<I("neg", rr, XZR, rr)>>
                        [] e.op = Operator.BitNot -> <<I("mvn", rr, XZR, rr)>>
                        [] e.op = Operator.Not    ->
                             <<I("cmp", XZR, rr, XZR), a64_cset(rr, 0)>>
                        [] OTHER -> <<>>
           IN  Gen(r.code \o tail, r.regind,
                   r.ok /\ a64_free_ok(r.regind - 1)
                        /\ (e.left # None => a64_call_ok(e.left.op % 16)))
      [] OTHER ->
           IF e.right = None THEN Gen(<<>>, regind, FALSE)
           ELSE
           LET l  == a64_gen_expr(e.left, regind)
               r  == a64_gen_expr(e.right, l.regind)
               ri == r.regind - 1
               rr == a64_free(ri)
               rl == a64_free(ri - 1)
               cset(rd, cond) == a64_cset(rd, cond)
               cmpset(cond) == <<I("cmp", XZR, rl, rr), cset(rl, cond)>>
               tail ==
                 CASE e.op = Operator.Or ->
                        <<I("orr", rl, rl, rr), I("cmp", XZR, rl, XZR), cset(rl, 1)>>
                   [] e.op = Operator.And ->
                        <<I("cmp", XZR, rl, XZR), cset(rl, 1),
                          I("cmp", XZR, rr, XZR), cset(rr, 1), I("mul", rl, rl, rr)>>
                   [] e.op = Operator.BitOr  -> <<I("orr", rl, rl, rr)>>
                   [] e.op = Operator.BitXor -> <<I("eor", rl, rl, rr)>>
                   [] e.op = Operator.BitAnd -> <<I("and", rl, rl, rr)>>
                   [] e.op = Operator.Eq  -> cmpset(0)
                   [] e.op = Operator.Neq -> cmpset(1)
                   [] e.op = Operator.Lt  -> cmpset(11)
                   [] e.op = Operator.Gt  -> cmpset(12)
                   [] e.op = Operator.Leq -> cmpset(13)
                   [] e.op = Operator.Geq -> cmpset(10)
                   [] e.op = Operator.BitShl -> <<I("lslv", rl, rl, rr)>>
                   [] e.op = Operator.BitShr -> <<I("asrv", rl, rl, rr)>>
                   [] e.op = Operator.Add -> <<I("add", rl, rl, rr)>>
                   [] e.op = Operator.Sub -> <<I("sub", rl, rl, rr)>>
                   [] e.op = Operator.Mul -> <<I("mul", rl, rl, rr)>>
                   [] e.op = Operator.Mod ->
                        <<I("cmp", XZR, rr, XZR), B("b_cond", 1, 3), mov(rl, XZR),
                          B("b", 0, 4), I("sdiv", X17, rl, rr),
                          I("mul", X18, X17, rr), I("sub", rl, rl, X18)>>
                   [] e.op = Operator.Div ->
                        <<I("cmp", XZR, rr, XZR), B("b_cond", 1, 3), mov(rl, XZR),
                          B("b", 0, 2), I("sdiv", rl, rl, rr)>>
                   [] e.op = Operator.Pow ->
                        a64_mov_imm(X17, 1)
                        \o <<I("cmp", XZR, rl, X17), B("b_cond", 0, 14), mov(X18, rr),
                             I("cmp", XZR, rr, XZR), B("b_cond", 12, 6), B("b_cond", 0, 10)>>
                        \o a64_mov_imm(X16, -1)
                        \o <<I("cmp", XZR, rl, X16), B("b_cond", 1, 6),
                             I("neg", X18, XZR, X18), I("mul", X17, X17, rl),
                             a64_ins("subs_imm", X18, X18, XZR, 1), B("b_cond", 12, -2),
                             B("b", 0, 2), mov(X17, XZR), mov(rl, X17)>>
                   [] OTHER -> <<>>
           IN  Gen(l.code \o r.code \o tail, ri,
                   l.ok /\ r.ok /\ a64_free_ok(ri) /\ a64_free_ok(ri - 1))

\* The two instructions compile appends to the body g: mov(X0, res), ret.
a64_epilogue(g) ==
    Gen(g.code \o <<a64_ins("orr", 0, a64_free(g.regind - 1), XZR, 0),
                     a64_ins("ret", XZR, XZR, XZR, 0)>>,
        g.regind, g.ok /\ a64_free_ok(g.regind - 1))

\* aarch64::Jit::compile
a64_compile(e) == a64_epilogue(a64_gen_expr(e, 0))


\* Machine state of a running call: pc is the index of the next instruction,
\* R the register file, M the memory, n/z/v the condition flags, st is
\* "run", "ret" (returned), "trap" (fault), "wild" (control left the code)
\* or "hang" (instruction budget used up).
a64_cond(s, cond) ==
    CASE cond = 0  -> s.z
      [] cond = 1  -> ~s.z
      [] cond = 10 -> s.n = s.v
      [] cond = 11 -> s.n # s.v
      [] cond = 12 -> ~s.z /\ s.n = s.v
      [] cond = 13 -> s.z \/ s.n # s.v
      [] OTHER     -> FALSE

\* What one emitted instruction does to the machine.
a64_exec(i, s) ==
    LET get(r) == IF r = XZR THEN 0 ELSE s.R[r]
        put(r, v) == IF r = XZR THEN [s EXCEPT !.pc = @ + 1]
                     ELSE [s EXCEPT !.R[r] = v, !.pc = @ + 1]
        a == get(i.rn)
        b == get(i.rm)
        subs(l, r) == LET d == Wrap(l - r)
                      IN  [n |-> d < 0, z |-> d = 0, v |-> d # l - r, d |-> d]
    IN  CASE i.f = "ret"  -> [s EXCEPT !.st = "ret"]
          [] i.f \in {"movz", "movz_movk"} -> put(i.rd, i.imm)
          [] i.f = "movn" -> put(i.rd, BitNot(i.imm))
          [] i.f = "ldr"  -> IF a \in DOMAIN s.M THEN put(i.rd, s.M[a])
                             ELSE [s EXCEPT !.st = "trap"]
          [] i.f = "str"  -> IF a \in DOMAIN s.M
                             THEN [s EXCEPT !.M[a] = get(i.rd), !.pc = @ + 1]
                             ELSE [s EXCEPT !.st = "trap"]
          [] i.f = "add"  -> put(i.rd, Wrap(a + b))
          [] i.f = "sub"  -> put(i.rd, Wrap(a - b))
          [] i.f = "neg"  -> put(i.rd, Wrap(0 - b))
          [] i.f = "mul"  -> put(i.rd, Wrap(a * b))
          [] i.f = "sdiv" -> put(i.rd, IF b = 0 THEN 0 ELSE Wrap(TruncDiv(a, b)))
          [] i.f = "and"  -> put(i.rd, BitAnd(a, b))
          [] i.f = "orr"  -> put(i.rd, BitOr(a, b))
          [] i.f = "eor"  -> put(i.rd, BitXor(a, b))
          [] i.f = "mvn"  -> put(i.rd, BitNot(b))
          [] i.f = "lslv" -> put(i.rd, Shl(a, b))
          [] i.f = "asrv" -> put(i.rd, Sar(a, b))
          [] i.f = "cmp"  -> LET f == subs(a, b)
                             IN  [s EXCEPT !.n = f.n, !.z = f.z, !.v = f.v, !.pc = @ + 1]
          [] i.f = "subs_imm" ->
                             LET f == subs(a, i.imm)
                             IN  [put(i.rd, f.d) EXCEPT !.n = f.n, !.z = f.z, !.v = f.v]
          [] i.f = "csinc" -> put(i.rd, IF a64_cond(s, i.imm) THEN a ELSE Wrap(b + 1))
          [] i.f = "b_cond" -> IF a64_cond(s, i.rm) THEN [s EXCEPT !.pc = @ + i.imm]
                               ELSE [s EXCEPT !.pc = @ + 1]
          [] i.f = "b"    -> [s EXCEPT !.pc = @ + i.imm]
          [] OTHER        -> [s EXCEPT !.st = "wild"]

RECURSIVE a64_run(_, _, _)
\* Runs up to 2^k instructions from s (the recursion halves the budget so
\* that its depth stays k).
a64_run(code, s, k) ==
    IF s.st # "run" THEN s
    ELSE IF k = 0
    THEN (IF s.pc < 1 \/ s.pc > Len(code) THEN [s EXCEPT !.st = "wild"]
          ELSE a64_exec(code[s.pc], s))
    ELSE a64_run(code, a64_run(code, s, k - 1), k - 1)

\* What the caller sees of the final machine state s.
a64_outcome(s) ==
    [v |-> s.R[0], M |-> s.M, st |-> IF s.st = "run" THEN "hang" ELSE s.st]

\* Calling the finished function as f(p0, p1): X0 and X1 carry the two
\* pointers (AAPCS64); every other register holds whatever the caller left
\* there (junk).  The result is the returned X0, the memory and how the
\* call ended.
a64_call_fn(code, M, p0, p1, junk) ==
    a64_outcome(a64_run(code,
        [pc |-> 1,
         R |-> [r \in 0..30 |-> IF r = 0 THEN p0 ELSE IF r = 1 THEN p1 ELSE junk],
         M |-> M, n |-> FALSE, z |-> FALSE, v |-> FALSE, st |-> "run"],
        RunDepth))


(***************************************************************************)
(* jit.rs, mod x86_64                                                      *)
(***************************************************************************)
\* enum Reg
Reg == [RAX |-> 0, RCX |-> 1, RDX |-> 2, RBX |-> 3, RSP |-> 4, RBP |-> 5,
        RSI |-> 6, RDI |-> 7, R8 |-> 8, R9 |-> 9, R10 |-> 10, R11 |-> 11,
        R12 |-> 12, R13 |-> 13, R14 |-> 14, R15 |-> 15]
x86_CALL_REGS == <<Reg.RDI, Reg.RSI, Reg.RDX, Reg.RCX, Reg.R8, Reg.R9>>
\* A register file with one free register less.
x86_FREE_REGS_three == <<Reg.R8, Reg.R9, Reg.R10>>
x86_FREE_REGS == <<Reg.R8, Reg.R9, Reg.R10, Reg.R11>>

\* The i32 range, scaled with the word (half of it), and the i8 range.
I32Bits == WORD \div 2
FitsI32(i) == i >= -Pow2(I32Bits - 1) /\ i <= Pow2(I32Bits - 1) - 1
FitsI8(i)  == i >= -128 /\ i <= 127

\* One emitted instruction: f names the emitter that wrote it.
x86_ins(f, r0, r1, i0) == [f |-> f, r0 |-> r0, r1 |-> r1, i0 |-> i0]

\* The number of bytes the emitter wrote (REX prefix, opcode, ModRM,
\* immediate).
x86_len(i) ==
    CASE i.f = "movir" -> IF FitsI32(i.i0) THEN (IF i.r1 >= 8 THEN 6 ELSE 5) ELSE 10
      [] i.f = "mov0m" -> 7
      [] i.f \in {"seter", "setner", "setlr", "setler", "setgr", "setger"} ->
            IF i.r0 >= 4 THEN 4 ELSE 3
      [] i.f \in {"andir", "cmpi"} ->
            IF FitsI8(i.i0) THEN 4 ELSE IF i.r1 = Reg.RAX THEN 6 ELSE 7
      [] i.f \in {"imulmr", "imulr"} -> 4
      [] i.f \in {"cqto", "jes", "jnes", "js", "jmps"} -> 2
      [] i.f = "ret" -> 1
      [] OTHER -> 3

x86_free(i) == IF i >= 0 /\ i < Len(x86_FREE_REGS) THEN x86_FREE_REGS[i + 1] ELSE Reg.R15
x86_call(i) == IF i >= 0 /\ i < Len(x86_CALL_REGS) THEN x86_CALL_REGS[i + 1] ELSE Reg.R15
x86_free_ok(i) == i >= 0 /\ i < Len(x86_FREE_REGS)
x86_call_ok(i) == i >= 0 /\ i < Len(x86_CALL_REGS)

RECURSIVE x86_gen_expr(_, _)
\* x86_64::Jit::gen_expr
x86_gen_expr(e, regind) ==
    LET I(f, r0, r1) == x86_ins(f, r0, r1, 0)
        K(f, i0, r1) == x86_ins(f, 0, r1, i0)
        J(f, i0)     == x86_ins(f, 0, 0, i0)
        RAX == Reg.RAX  RCX == Reg.RCX  RDX == Reg.RDX
    IN
    CASE e.op = Operator.Literal ->
           Gen(<<K("movir", e.literal, x86_free(regind))>>, regind + 1, x86_free_ok(regind))
      [] e.op \in {Operator.Var, Operator.VarY} ->
           LET reg_idx == e.op % 16
           IN  Gen(<<I("movmr", x86_call(reg_idx), x86_free(regind))>>, regind + 1,
                   x86_free_ok(regind) /\ x86_call_ok(reg_idx))
      [] e.op \in {Operator.PreInc, Operator.PreDec, Operator.PostInc, Operator.PostDec} ->
           IF e.right = None THEN Gen(<<>>, regind, FALSE)
           ELSE
           LET reg_idx == e.right.op % 16
               ptr  == x86_call(reg_idx)
               step == I(IF e.op \in {Operator.PreInc, Operator.PostInc}
                         THEN "incm" ELSE "decm", ptr, 0)
               load == I("movmr", ptr, x86_free(regind))
           IN  Gen(IF e.op \in {Operator.PreInc, Operator.PreDec}
                   THEN <<step, load>> ELSE <<load, step>>, regind + 1,
                   x86_free_ok(regind) /\ x86_call_ok(reg_idx))
      [] e.left = None \/ is_assignment(e) ->
           IF e.right = None THEN Gen(<<>>, regind, FALSE)
           ELSE
           LET r  == x86_gen_expr(e.right, regind)
               rr == x86_free(r.regind - 1)
               target_reg == x86_call(e.left.op % 16)
               guard == <<I("testr", rr, rr), J("jes", 24), I("movmr", target_reg, RAX),
                          K("movir", MinInt, RDX), I("cmpr", RDX, RAX), J("jnes", 14),
                          K("cmpi", -1, rr), J("jnes", 8), I("mov0m", target_reg, 0),
                          J("ret", 0), J("cqto", 0), I("idivr", rr, 0)>>
               tail ==
                 IF e.left # None
                 THEN CASE e.op = Operator.AssignEq -> <<I("movrm", rr, target_reg)>>
                        [] e.op = Operator.BitOrEq  -> <<I("orrm", rr, target_reg)>>
                        [] e.op = Operator.BitXorEq -> <<I("xorrm", rr, target_reg)>>
                        [] e.op = Operator.BitAndEq -> <<I("andrm", rr, target_reg)>>
                        [] e.op = Operator.BitShlEq ->
                             <<I("movr", rr, RCX), I("salcm", target_reg, 0)>>
                        [] e.op = Operator.BitShrEq ->
                             <<I("movr", rr, RCX), I("sarcm", target_reg, 0)>>
                        [] e.op = Operator.AddEq -> <<I("addrm", rr, target_reg)>>
                        [] e.op = Operator.SubEq -> <<I("subrm", rr, target_reg)>>
                        [] e.op = Operator.MulEq ->
                             <<I("imulmr", target_reg, rr), I("movrm", rr, target_reg)>>
                        [] e.op = Operator.DivEq -> guard \o <<I("movrm", RAX, target_reg)>>
                        [] e.op = Operator.ModEq -> guard \o <<I("movrm", RDX, target_reg)>>
                        [] OTHER -> <<>>
                 ELSE CASE e.op = Operator.Neg    -> <<I("negr", rr, 0)>>
                        [] e.op = Operator.BitNot -> <<I("notr", rr, 0)>>
                        [] e.op = Operator.Not    ->
                             <<I("testr", rr, rr), I("seter", rr, 0), K("andir", 1, rr)>>
                        [] OTHER -> <<>>
           IN  Gen(r.code \o tail, r.regind,
                   r.ok /\ x86_free_ok(r.regind - 1)
                        /\ (e.left # None => x86_call_ok(e.left.op % 16)))
      [] OTHER ->
           IF e.right = None THEN Gen(<<>>, regind, FALSE)
           ELSE
           LET l  == x86_gen_expr(e.left, regind)
               r  == x86_gen_expr(e.right, l.regind)
               ri == r.regind - 1
               rr == x86_free(ri)
               rl == x86_free(ri - 1)
               cmpset(f) == <<I("cmpr", rr, rl), I(f, rl, 0), K("andir", 1, rl)>>
               guard == <<I("testr", rr, rr), J("jes", 21), K("movir", MinInt, RDX),
                          I("cmpr", RDX, rl), J("jnes", 10), K("cmpi", -1, rr),
                          J("jnes", 4), I("xorr", RAX, RAX), J("ret", 0),
                          I("movr", rl, RAX), J("cqto", 0), I("idivr", rr, 0)>>
               tail ==
                 CASE e.op = Operator.Or ->
                        <<I("orr", rr, rl), I("xorr", RAX, RAX), I("testr", rl, rl),
                          I("setner", RAX, 0), I("movr", RAX, rl)>>
                   [] e.op = Operator.And ->
                        <<I("testr", rl, rl), J("jes", 13), I("testr", rr, rr), J("jes", 8),
                          K("movir", 1, rl), J("jmps", 3), I("xorr", rl, rl)>>
                   [] e.op = Operator.BitOr  -> <<I("orr", rr, rl)>>
                   [] e.op = Operator.BitXor -> <<I("xorr", rr, rl)>>
                   [] e.op = Operator.BitAnd -> <<I("andr", rr, rl)>>
                   [] e.op = Operator.Eq  -> cmpset("seter")
                   [] e.op = Operator.Neq -> cmpset("setner")
                   [] e.op = Operator.Lt  -> cmpset("setlr")
                   [] e.op = Operator.Gt  -> cmpset("setgr")
                   [] e.op = Operator.Leq -> cmpset("setler")
                   [] e.op = Operator.Geq -> cmpset("setger")
                   [] e.op = Operator.BitShl -> <<I("movr", rr, RCX), I("salc", rl, 0)>>
                   [] e.op = Operator.BitShr -> <<I("movr", rr, RCX), I("sarc", rl, 0)>>
                   [] e.op = Operator.Add -> <<I("addr", rr, rl)>>
                   [] e.op = Operator.Sub -> <<I("subr", rr, rl)>>
                   [] e.op = Operator.Mul -> <<I("imulr", rr, rl)>>
                   [] e.op = Operator.Div -> guard \o <<I("movr", RAX, rl)>>
                   [] e.op = Operator.Mod -> guard \o <<I("movr", RDX, rl)>>
                   [] e.op = Operator.Pow ->
                        <<I("testr", rr, rr), J("js", 24), K("movir", 1, RAX),
                          I("testr", rr, rr), J("jes", 9), I("imulr", rl, RAX),
                          I("decr", rr, 0), J("jnes", -9), I("movr", RAX, rl),
                          J("jmps", 3), I("xorr", rl, rl)>>
                   [] OTHER -> <<>>
           IN  Gen(l.code \o r.code \o tail, ri,
                   l.ok /\ r.ok /\ x86_free_ok(ri) /\ x86_free_ok(ri - 1))

\* The two instructions compile appends to the body g: movr(res, RAX), ret.
x86_epilogue(g) ==
    Gen(g.code \o <<x86_ins("movr", x86_free(g.regind - 1), Reg.RAX, 0),
                     x86_ins("ret", 0, 0, 0)>>,
        g.regind, g.ok /\ x86_free_ok(g.regind - 1))

\* x86_64::Jit::compile
x86_compile(e) == x86_epilogue(x86_gen_expr(e, 0))


RECURSIVE x86_target(_, _, _)
\* Where a rel8 branch lands: from the instruction at index k, d bytes
\* further (d < 0: back).  0 when the bytes do not end on the first byte of
\* an instruction of the buffer.
x86_target(code, k, d) ==
    IF d = 0 THEN k
    ELSE IF d > 0
    THEN (IF k > Len(code) \/ x86_len(code[k]) > d THEN 0
          ELSE x86_target(code, k + 1, d - x86_len(code[k])))
    ELSE (IF k <= 1 \/ x86_len(code[k - 1]) > -d THEN 0
          ELSE x86_target(code, k - 1, d + x86_len(code[k - 1])))

\* What the bytes of the instruction at s.pc do to the machine (pc is the
\* index of the instruction; zf/sf/of are the flags the generated branches
\* and setcc read).  movr, movrm and testr are written with a ModRM byte
\* whose mod field is 00, so their second operand is the memory word the
\* register points at.
x86_exec(code, s) ==
    LET i == code[s.pc]
        R == s.R
        nx == s.pc + 1
        mapped(a) == a \in DOMAIN s.M
        trap == [s EXCEPT !.st = "trap"]
        fl(t, d, o) == [t EXCEPT !.zf = d = 0, !.sf = d < 0, !.of = o]
        putr(r, v) == [s EXCEPT !.R[r] = v, !.pc = nx]
        putrf(r, v, o) == fl(putr(r, v), v, o)
        putm(a, v) == IF mapped(a) THEN [s EXCEPT !.M[a] = v, !.pc = nx] ELSE trap
        putmf(a, v, o) == IF mapped(a) THEN fl(putm(a, v), v, o) ELSE trap
        ld(a) == IF mapped(a) THEN s.M[a] ELSE 0
        cmp(a, b) == fl([s EXCEPT !.pc = nx], Wrap(a - b), Wrap(a - b) # a - b)
        cc == CASE i.f = "seter"  -> s.zf
                [] i.f = "setner" -> ~s.zf
                [] i.f = "setlr"  -> s.sf # s.of
                [] i.f = "setler" -> s.zf \/ s.sf # s.of
                [] i.f = "setgr"  -> ~s.zf /\ s.sf = s.of
                [] OTHER          -> s.sf = s.of
        jump(c) == [s EXCEPT !.pc = IF c THEN x86_target(code, nx, i.i0) ELSE nx]
    IN  CASE i.f = "movir" ->
               putr(i.r1, IF FitsI32(i.i0) /\ i.i0 < 0 THEN i.i0 + Pow2(I32Bits) ELSE i.i0)
          [] i.f = "movmr" -> IF mapped(R[i.r0]) THEN putr(i.r1, s.M[R[i.r0]]) ELSE trap
          [] i.f \in {"movr", "movrm"} -> putm(R[i.r1], R[i.r0])
          [] i.f = "mov0m" -> putm(R[i.r0], 0)
          [] i.f = "incm"  -> putmf(R[i.r0], Wrap(ld(R[i.r0]) + 1), FALSE)
          [] i.f = "decm"  -> putmf(R[i.r0], Wrap(ld(R[i.r0]) - 1), FALSE)
          [] i.f = "negr"  -> putrf(i.r0, Wrap(-R[i.r0]), FALSE)
          [] i.f = "notr"  -> putr(i.r0, BitNot(R[i.r0]))
          [] i.f = "decr"  -> putrf(i.r0, Wrap(R[i.r0] - 1), FALSE)
          [] i.f = "testr" -> IF mapped(R[i.r1])
                              THEN fl([s EXCEPT !.pc = nx], BitAnd(s.M[R[i.r1]], R[i.r0]), FALSE)
                              ELSE trap
          [] i.f \in {"seter", "setner", "setlr", "setler", "setgr", "setger"} ->
               LET u == Unsigned(R[i.r0])
               IN  putr(i.r0, Wrap(u - (u % 256) + (IF cc THEN 1 ELSE 0)))
          [] i.f = "andir" -> putrf(i.r1, BitAnd(R[i.r1], i.i0), FALSE)
          [] i.f = "orr"   -> putrf(i.r1, BitOr(R[i.r1], R[i.r0]), FALSE)
          [] i.f = "xorr"  -> putrf(i.r1, BitXor(R[i.r1], R[i.r0]), FALSE)
          [] i.f = "andr"  -> putrf(i.r1, BitAnd(R[i.r1], R[i.r0]), FALSE)
          [] i.f = "addr"  -> putrf(i.r1, Wrap(R[i.r1] + R[i.r0]), FALSE)
          [] i.f = "subr"  -> putrf(i.r1, Wrap(R[i.r1] - R[i.r0]), FALSE)
          [] i.f = "imulr" -> putrf(i.r1, Wrap(R[i.r1] * R[i.r0]), FALSE)
          [] i.f = "imulmr" -> IF mapped(R[i.r0])
                               THEN putrf(i.r1, Wrap(R[i.r1] * s.M[R[i.r0]]), FALSE)
                               ELSE trap
          [] i.f = "orrm"  -> putmf(R[i.r1], BitOr(ld(R[i.r1]), R[i.r0]), FALSE)
          [] i.f = "xorrm" -> putmf(R[i.r1], BitXor(ld(R[i.r1]), R[i.r0]), FALSE)
          [] i.f = "andrm" -> putmf(R[i.r1], BitAnd(ld(R[i.r1]), R[i.r0]), FALSE)
          [] i.f = "addrm" -> putmf(R[i.r1], Wrap(ld(R[i.r1]) + R[i.r0]), FALSE)
          [] i.f = "subrm" -> putmf(R[i.r1], Wrap(ld(R[i.r1]) - R[i.r0]), FALSE)
          [] i.f = "salcm" -> putmf(R[i.r0], Shl(ld(R[i.r0]), R[Reg.RCX]), FALSE)
          [] i.f = "sarcm" -> putmf(R[i.r0], Sar(ld(R[i.r0]), R[Reg.RCX]), FALSE)
          [] i.f = "salc"  -> putrf(i.r0, Shl(R[i.r0], R[Reg.RCX]), FALSE)
          [] i.f = "sarc"  -> putrf(i.r0, Sar(R[i.r0], R[Reg.RCX]), FALSE)
          [] i.f = "cmpr"  -> cmp(R[i.r1], R[i.r0])
          [] i.f = "cmpi"  -> cmp(R[i.r1], i.i0)
          [] i.f = "cqto"  -> putr(Reg.RDX, IF R[Reg.RAX] < 0 THEN -1 ELSE 0)
          [] i.f = "idivr" ->
               LET n == R[Reg.RDX] * Pow2(WORD) + Unsigned(R[Reg.RAX])
                   d == R[i.r0]
               IN  IF d = 0 \/ TruncDiv(n, IF d = 0 THEN 1 ELSE d) \notin MinInt..MaxInt
                   THEN trap
                   ELSE [s EXCEPT !.R[Reg.RAX] = TruncDiv(n, d),
                                  !.R[Reg.RDX] = TruncRem(n, d), !.pc = nx]
          [] i.f = "ret"   -> [s EXCEPT !.st = "ret"]
          [] i.f = "jes"   -> jump(s.zf)
          [] i.f = "jnes"  -> jump(~s.zf)
          [] i.f = "js"    -> jump(s.sf)
          [] i.f = "jmps"  -> jump(TRUE)
          [] OTHER         -> [s EXCEPT !.st = "wild"]

RECURSIVE x86_run(_, _, _)
\* Runs up to 2^k instructions from s.
x86_run(code, s, k) ==
    IF s.st # "run" THEN s
    ELSE IF k = 0
    THEN (IF s.pc < 1 \/ s.pc > Len(code) THEN [s EXCEPT !.st = "wild"]
          ELSE x86_exec(code, s))
    ELSE x86_run(code, x86_run(code, s, k - 1), k - 1)

\* What the caller sees of the final machine state s.
x86_outcome(s) ==
    [v |-> s.R[Reg.RAX], M |-> s.M, st |-> IF s.st = "run" THEN "hang" ELSE s.st]

\* Calling the finished function as f(p0, p1): RDI and RSI carry the two
\* pointers (System V); every other register, RAX and RCX included, holds
\* whatever the caller left there (junk).  The result is the returned RAX,
\* the memory and how the call ended.
x86_call_fn(code, M, p0, p1, junk) ==
    x86_outcome(x86_run(code,
        [pc |-> 1,
         R |-> [r \in 0..15 |-> IF r = Reg.RDI THEN p0
                                ELSE IF r = Reg.RSI THEN p1 ELSE junk],
         M |-> M, zf |-> FALSE, sf |-> FALSE, of |-> FALSE, st |-> "run"],
        RunDepth))


(***************************************************************************)
(* Build target and calls through jit.func()                               *)
(***************************************************************************)
\* cfg(target_arch): the code generator that is compiled in.
Archs == {"x86_64", "aarch64"}

\* What the caller may have left in the registers the ABI does not define
\* on entry: an unmapped address, the address of x, a writable word.
JunkRegs == {0, AddrX, AddrScratch}

\* jit_compile_expr: Jit::new, compile, finalize.
jit_compile_expr(a, e) == IF a = "x86_64" THEN x86_compile(e) ELSE a64_compile(e)

\* The value a call returned and the words it left in x and y.
JitOutcome(r) == [v |-> r.v, x |-> r.M[AddrX], y |-> r.M[AddrY], st |-> r.st]

\* unsafe { f(&mut x, &mut y) } for the compiled buffer c: the value
\* returned, the words left in x and y, and st = "ret" when the call came
\* back ("trap": a load or store outside mapped memory, "hang": the
\* instruction budget ran out, "wild": control left the buffer).
JitRun(a, c, x, y, junk) ==
    JitOutcome(IF a = "x86_64" THEN x86_call_fn(c, Mem(x, y), AddrX, AddrY, junk)
               ELSE a64_call_fn(c, Mem(x, y), AddrX, AddrY, junk))

JitCall(a, e, x, y, junk) == JitRun(a, jit_compile_expr(a, e).code, x, y, junk)

(***************************************************************************)
(* lib.rs: impl PartialEq / Hash for Expr                                  *)
(***************************************************************************)
range == 4

\* The probe grid in traversal order: x_val outer, y_val inner.
ProbePoints ==
    [k \in 1..((2 * range + 1) * (2 * range + 1)) |->
        <<((k - 1) \div (2 * range + 1)) - range, ((k - 1) % (2 * range + 1)) - range>>]

\* One probe of the interpreter on fresh copies: (r, x, y); the fatal flag
\* is dropped.
NaiveProbe(e, p) ==
    LET r == naive_eval(e, p[1], p[2], FALSE) IN <<r.v, r.x, r.y>>

NaiveFeed(e) == [k \in 1..Len(ProbePoints) |-> NaiveProbe(e, ProbePoints[k])]

\* The probes of the compiled function, one record per grid point.
JitProbes(a, c, junk) ==
    [k \in 1..Len(ProbePoints) |->
        JitRun(a, c, ProbePoints[k][1], ProbePoints[k][2], junk)]

JitFeed(a, e, junk) == JitProbes(a, jit_compile_expr(a, e).code, junk)

\* The loop of Hash::hash over the probes res of the compiled function.
hash_feed(res) ==
    IF \A k \in 1..Len(res) : res[k].st = "ret"
    THEN [ok |-> TRUE,
          feed |-> [k \in 1..Len(res) |-> <<res[k].v, res[k].x, res[k].y>>]]
    ELSE [ok |-> FALSE, feed |-> <<>>]

\* Hash::hash: the (r, x, y) triples fed to the hasher in order.  ok is
\* FALSE when a call of the compiled function did not come back.
hash(a, e, junk) ==
    IF e.jit THEN hash_feed(JitFeed(a, e, junk))
    ELSE [ok |-> TRUE, feed |-> NaiveFeed(e)]

\* Whether the loop of PartialEq::eq stops at probe k: a call that did not
\* come back, or a difference in r, x or y.
eq_stop(r1, r2, k) ==
    \/ r1[k].st # "ret" \/ r2[k].st # "ret"
    \/ r1[k].v # r2[k].v \/ r1[k].x # r2[k].x \/ r1[k].y # r2[k].y

\* The first probe at which the loop stops, 0 when it runs to the end.
eq_first(r1, r2) ==
    IF \A k \in 1..Len(r1) : ~eq_stop(r1, r2, k) THEN 0
    ELSE CHOOSE k \in 1..Len(r1) :
            eq_stop(r1, r2, k) /\ \A m \in 1..(k - 1) : ~eq_stop(r1, r2, m)

\* What the loop answers when it stops at k0.
eq_at(r1, r2, k0) ==
    IF k0 = 0 THEN [ok |-> TRUE, v |-> TRUE]
    ELSE IF r1[k0].st # "ret" \/ r2[k0].st # "ret"
    THEN [ok |-> FALSE, v |-> FALSE]
    ELSE [ok |-> TRUE, v |-> FALSE]

\* The loop of PartialEq::eq over the probes of the two compiled functions.
eq_probes(r1, r2) == eq_at(r1, r2, eq_first(r1, r2))

\* An equality that never finds two expressions equal.
eq_never(a, e1, e2, junk) == [ok |-> TRUE, v |-> FALSE]

\* PartialEq::eq: the compiled functions when both sides carry one, the
\* interpreter otherwise; v is the answer, ok is FALSE when a call made
\* before the answer was known did not come back.
eq(a, e1, e2, junk) ==
    IF e1.jit /\ e2.jit
    THEN eq_probes(JitFeed(a, e1, junk), JitFeed(a, e2, junk))
    ELSE [ok |-> TRUE, v |-> NaiveFeed(e1) = NaiveFeed(e2)]

(***************************************************************************)
(* params.rs                                                               *)
(***************************************************************************)
ANSWER == <<1, 1, 2, 3, 5, 8, 13, 21, 34, 55, 89, 144>>
INIT_X_MIN == -1
INIT_X_MAX == 1
INIT_Y_MIN == -1
INIT_Y_MAX == 1
LITERALS == <<1, 2, 3>>
USE_PARENS == TRUE
PRUNE_CONST_EXPR == TRUE

BINARY_OPERATORS ==
    << [op |-> Operator.BitOr, len |-> 1], [op |-> Operator.BitXor, len |-> 1],
       [op |-> Operator.BitAnd, len |-> 1], [op |-> Operator.Lt, len |-> 1],
       [op |-> Operator.Gt, len |-> 1], [op |-> Operator.Add, len |-> 1],
       [op |-> Operator.Sub, len |-> 1], [op |-> Operator.Mul, len |-> 1],
       [op |-> Operator.Div, len |-> 1], [op |-> Operator.Mod, len |-> 1],
       [op |-> Operator.Eq, len |-> 2], [op |-> Operator.Neq, len |-> 2],
       [op |-> Operator.Leq, len |-> 2], [op |-> Operator.Geq, len |-> 2],
       [op |-> Operator.BitShl, len |-> 2], [op |-> Operator.BitShr, len |-> 2],
       [op |-> Operator.Or, len |-> 2], [op |-> Operator.And, len |-> 2] >>

UNARY_OPERATORS == <<Operator.Neg, Operator.BitNot, Operator.Not>>

ASSIGN_OPERATORS ==
    << [op |-> Operator.AssignEq, len |-> 1], [op |-> Operator.AddEq, len |-> 2],
       [op |-> Operator.SubEq, len |-> 2], [op |-> Operator.MulEq, len |-> 2],
       [op |-> Operator.DivEq, len |-> 2], [op |-> Operator.ModEq, len |-> 2],
       [op |-> Operator.BitOrEq, len |-> 2], [op |-> Operator.BitXorEq, len |-> 2],
       [op |-> Operator.BitAndEq, len |-> 2], [op |-> Operator.BitShlEq, len |-> 3],
       [op |-> Operator.BitShrEq, len |-> 3] >>

INCDEC_OPERATORS ==
    <<Operator.PreInc, Operator.PreDec, Operator.PostInc, Operator.PostDec>>

binary_ops_by_len(len) == SelectSeq(BINARY_OPERATORS, LAMBDA o : o.len = len)

\* A matcher that compares with the target one place further on.
match_one_shifted(index, output) == output = ANSWER[((index + 1) % Len(ANSWER)) + 1]

\* Matcher::match_one
match_one(index, output) == output = ANSWER[index + 1]

(***************************************************************************)
(* main.rs: expression construction and the enumerator's candidates        *)
(***************************************************************************)
\* make_expr: the node, compiled when USE_JIT is set.
make_expr(left, right, literal, op, jit) == Expr(left, right, literal, op, jit)

\* A precedence test that lets * / % take any right operand of unary rank,
\* the literal 1 included, and + - take a right operand of additive rank.
can_apply_loose(bin_op, e_l, e_r) ==
    LET o == bin_op.op
    IN  CASE o \in {Operator.Add, Operator.Sub} -> e_l.op >= \hA0 /\ e_r.op >= \hA0
          [] o \in {Operator.Mul, Operator.Div, Operator.Mod} ->
                e_l.op >= \hB0 /\ e_r.op >= \hC0
          [] OTHER -> FALSE

\* The precedence test of gen_binary_ops for one operator and one pair of
\* children.
can_apply(bin_op, e_l, e_r) ==
    LET op_l_val == e_l.op
        op_r_val == e_r.op
        o == bin_op.op
    IN  CASE o = Operator.BitOr  -> op_l_val >= \h40 /\ op_r_val >= \h50
          [] o = Operator.BitXor -> op_l_val >= \h50 /\ op_r_val >= \h60
          [] o = Operator.BitAnd -> op_l_val >= \h60 /\ op_r_val >= \h70
          [] o \in {Operator.Eq, Operator.Neq} -> op_l_val >= \h70 /\ op_r_val >= \h80
          [] o \in {Operator.Lt, Operator.Gt}  -> op_l_val >= \h80 /\ op_r_val >= \h90
          [] o \in {Operator.Leq, Operator.Geq} -> op_l_val >= \h80 /\ op_r_val >= \h90
          [] o \in {Operator.BitShl, Operator.BitShr} -> op_l_val >= \h90 /\ op_r_val >= \hA0
          [] o \in {Operator.Add, Operator.Sub} -> op_l_val >= \hA0 /\ op_r_val >= \hB0
          [] o \in {Operator.Mul, Operator.Div, Operator.Mod, Operator.Pow} ->
                op_l_val >= \hB0 /\ op_r_val >= \hC0 /\ e_r.literal # 1
          [] OTHER -> FALSE

\* One iteration of the innermost loop of gen_binary_ops: the expression it
\* pushes, or <<>> when the pair is pruned or the operator cannot apply.
binary_candidate(e_l, e_r, bin_op, jit) ==
    IF PRUNE_CONST_EXPR /\ e_l.op = Operator.Literal /\ e_r.op = Operator.Literal
    THEN <<>>
    ELSE IF can_apply(bin_op, e_l, e_r)
    THEN <<make_expr(e_l, e_r, -1, bin_op.op, jit)>>
    ELSE <<>>

RECURSIVE FlattenRange(_, _, _)
FlattenRange(ss, lo, hi) ==
    IF lo > hi THEN <<>>
    ELSE IF lo = hi THEN ss[lo]
    ELSE LET mid == (lo + hi) \div 2
         IN  FlattenRange(ss, lo, mid) \o FlattenRange(ss, mid + 1, hi)

\* Concatenation of a sequence of sequences (flat_map(..).collect()).
Flatten(ss) == FlattenRange(ss, 1, Len(ss))

\* A split that leaves the operator's own width out of the account.
right_len_no_op(n, n_l, op_len) == IF n > n_l THEN n - n_l ELSE 0

\* n.saturating_sub(n_l + op_len): the length left for the right operand.
right_len(n, n_l, op_len) == IF n > n_l + op_len THEN n - (n_l + op_len) ELSE 0

\* gen_binary_ops(n_l, op_len) inside gen_expressions(n); `expressions` maps
\* each finished length to its members in iteration order.
gen_binary_ops(expressions, n, n_l, op_len, jit) ==
    LET n_r == right_len(n, n_l, op_len)
    IN  IF n_r < 1 \/ n_l \notin DOMAIN expressions \/ n_r \notin DOMAIN expressions
        THEN <<>>
        ELSE LET L == expressions[n_l]
                 R == expressions[n_r]
                 O == binary_ops_by_len(op_len)
             IN  Flatten([k \in 1..(Len(L) * Len(R) * Len(O)) |->
                     LET i == (k - 1) \div (Len(R) * Len(O))
                         j == ((k - 1) \div Len(O)) % Len(R)
                         o == (k - 1) % Len(O)
                     IN  binary_candidate(L[i + 1], R[j + 1], O[o + 1], jit)])

\* Everything gen_expressions(n) offers to the set `en`, in program order:
\* seeds, ++/--, one-byte and two-byte binary operators, unary operators,
\* parentheses.
gen_candidates(expressions, n, jit) ==
    LET get(k) == IF k \in DOMAIN expressions THEN expressions[k] ELSE <<>>
        seeds == IF n = 1
                 THEN <<make_expr(None, None, -1, Operator.Var, jit),
                        make_expr(None, None, -1, Operator.VarY, jit)>>
                      \o [k \in 1..Len(LITERALS) |->
                             make_expr(None, None, LITERALS[k], Operator.Literal, jit)]
                 ELSE <<>>
        incdec == IF n = 3
                  THEN Flatten([k \in 1..Len(get(1)) |->
                           IF get(1)[k].op # Operator.Literal
                           THEN [m \in 1..Len(INCDEC_OPERATORS) |->
                                    make_expr(None, get(1)[k], -1, INCDEC_OPERATORS[m], jit)]
                           ELSE <<>>])
                  ELSE <<>>
        bin1 == IF n > 2
                THEN Flatten([n_l \in 1..(n - 2) |-> gen_binary_ops(expressions, n, n_l, 1, jit)])
                ELSE <<>>
        bin2 == IF n > 3
                THEN Flatten([n_l \in 1..(n - 3) |-> gen_binary_ops(expressions, n, n_l, 2, jit)])
                ELSE <<>>
        unary == IF n > 1
                 THEN Flatten([k \in 1..Len(get(n - 1)) |->
                          IF get(n - 1)[k].op >= \hC0
                          THEN [m \in 1..Len(UNARY_OPERATORS) |->
                                   make_expr(None, get(n - 1)[k], -1, UNARY_OPERATORS[m], jit)]
                          ELSE <<>>])
                 ELSE <<>>
        parens == IF USE_PARENS /\ n > 2
                  THEN [k \in 1..Len(get(n - 2)) |->
                           make_expr(None, get(n - 2)[k], -1, Operator.Parens, jit)]
                  ELSE <<>>
    IN  seeds \o incdec \o bin1 \o bin2 \o unary \o parens

\* A gen_statements that takes y, the second variable, as the target.
gen_statement_candidates_y(expressions, var_x, n, jit) ==
    Flatten([a \in 1..Len(ASSIGN_OPERATORS) |->
        LET assign_op == ASSIGN_OPERATORS[a]
            expr_len == IF n > assign_op.len THEN n - assign_op.len ELSE 0
        IN  IF expr_len < 1 \/ expr_len \notin DOMAIN expressions THEN <<>>
            ELSE [k \in 1..Len(expressions[expr_len]) |->
                     make_expr([var_x EXCEPT !.op = Operator.VarY],
                               expressions[expr_len][k], -1, assign_op.op, jit)]])

\* Everything gen_statements(n) offers to the set `sn`: x <op>= e for every
\* assignment operator and every cached e of the remaining length.
gen_statement_candidates(expressions, var_x, n, jit) ==
    Flatten([a \in 1..Len(ASSIGN_OPERATORS) |->
        LET assign_op == ASSIGN_OPERATORS[a]
            expr_len == IF n > assign_op.len THEN n - assign_op.len ELSE 0
        IN  IF expr_len < 1 \/ expr_len \notin DOMAIN expressions THEN <<>>
            ELSE [k \in 1..Len(expressions[expr_len]) |->
                     make_expr(var_x, expressions[expr_len][k], -1, assign_op.op, jit)]])

(***************************************************************************)
(* State.  arch, use_jit and junk are fixed by the build and the caller;   *)
(* every specification below moves one of the remaining variables and      *)
(* leaves the others at their idle value.                                  *)
(***************************************************************************)
VARIABLES
    arch,      \* the target the JIT was built for
    use_jit,   \* params::USE_JIT of the build
    junk,      \* what the caller left in the registers the ABI leaves undefined
    ev,        \* compare_jit_naive: the expression, the point, both outcomes
    cmp,       \* one == / hash experiment on a pair of expressions
    tp,        \* search_cached / test_pair / test_pair_with_init in progress
    reported,  \* what print_result has printed
    bin,       \* gen_binary_ops: the loop position and the last iteration
    ctx,       \* Context: expressions, statements, and the insertion in progress
    jobj       \* one Jit object between Jit::new and its drop

vars == <<arch, use_jit, junk, ev, cmp, tp, reported, bin, ctx, jobj>>

IdleEv  == [k |-> 0]
IdleCmp == [a |-> 0]
IdleTp  == [ph |-> "idle"]
IdleBin == [k |-> 0]
IdleCtx == [ph |-> "idle"]
IdleJit == [ph |-> "idle"]

(***************************************************************************)
(* SpecEval: jit.rs tests, compare_jit_naive driven over a range of points *)
(* for one expression.                                                     *)
(***************************************************************************)
Cand1 == gen_candidates(<<>>, 1, TRUE)
Cand2 == gen_candidates(<<Cand1>>, 2, TRUE)
Cand3 == gen_candidates(<<Cand1, Cand2>>, 3, TRUE)
CandS2 == gen_statement_candidates(<<Cand1, Cand2>>, Cand1[1], 2, TRUE)
CandS3 == gen_statement_candidates(<<Cand1, Cand2, Cand3>>, Cand1[1], 3, TRUE)
\* The members of the longer sets that bring in the remaining operators:
\* two-byte binary operators and <<=, >>= over the seeds.
Cand4 == gen_binary_ops(<<Cand1>>, 4, 1, 2, TRUE)
CandS4 == SelectSeq(gen_statement_candidates(<<Cand1>>, Cand1[1], 4, TRUE),
                    LAMBDA e : e.op \in {Operator.BitShlEq, Operator.BitShrEq})

\* Expressions the tests build by hand: an operand with a side effect next
\* to a read of the same variable, **, a literal 0 divisor, and every
\* assignment operator with y as its target.
TestExprs ==
    LET X == make_expr(None, None, -1, Operator.Var, TRUE)
        Y == make_expr(None, None, -1, Operator.VarY, TRUE)
        Zero == make_expr(None, None, 0, Operator.Literal, TRUE)
        un(op, r) == make_expr(None, r, -1, op, TRUE)
        bi(l, op, r) == make_expr(l, r, -1, op, TRUE)
    IN  << bi(un(Operator.PostInc, X), Operator.Add, X),
           bi(X, Operator.Add, un(Operator.PostInc, X)),
           bi(un(Operator.PostDec, Y), Operator.Mul, Y),
           bi(bi(X, Operator.AddEq, Y), Operator.Sub, X),
           bi(X, Operator.Pow, Y),
           bi(Y, Operator.Pow, X),
           bi(X, Operator.Pow, Zero),
           bi(X, Operator.Div, Zero),
           bi(X, Operator.Mod, Zero) >>
        \o [a \in 1..Len(ASSIGN_OPERATORS) |-> bi(Y, ASSIGN_OPERATORS[a].op, X)]

\* What the harness is run on: everything the enumerator offers up to
\* length 3, the members above, and the hand-built expressions.
EvalExprs == Cand1 \o Cand2 \o Cand3 \o CandS2 \o CandS3 \o Cand4 \o CandS4 \o TestExprs

\* The 81 probe points, then the corners of the integer range, a point
\* where both x ** y and y ** x leave the word, and x = 5.
EvalPoints ==
    ProbePoints \o << <<MinInt, -1>>, <<MinInt, 0>>, <<MaxInt, 1>>, <<-1, MinInt>>,
                      <<8, 4>>, <<5, 0>> >>

InitEval ==
    /\ arch \in Archs
    /\ use_jit = TRUE
    /\ junk \in JunkRegs
    /\ \E k \in 1..Len(EvalExprs) : ev = [k |-> k, p |-> 0, dead |-> FALSE]
    /\ cmp = IdleCmp /\ tp = IdleTp /\ reported = {} /\ bin = IdleBin /\ ctx = IdleCtx /\ jobj = IdleJit

\* compare_jit_naive(e, x_val, y_val) at the next point of the range; dead
\* records that the compiled function did not come back.
compare_jit_naive ==
    /\ ev.k > 0 /\ ~ev.dead /\ ev.p < Len(EvalPoints)
    /\ \E e \in {EvalExprs[ev.k]}, pt \in {EvalPoints[ev.p + 1]} :
       \E j \in {JitCall(arch, e, pt[1], pt[2], junk)},
          n \in {naive_eval(e, pt[1], pt[2], FALSE)} :
          ev' = [k |-> ev.k, p |-> ev.p + 1, dead |-> j.st # "ret",
                 x0 |-> pt[1], y0 |-> pt[2], naive |-> n, jit |-> j,
                 res |-> IF j.st # "ret" THEN FALSE
                         ELSE n.fatal \/ (j.v = n.v /\ j.x = n.x /\ j.y = n.y)]
    /\ UNCHANGED <<arch, use_jit, junk, cmp, tp, reported, bin, ctx, jobj>>

NextEval == compare_jit_naive
SpecEval == InitEval /\ [][NextEval]_vars

InGrid(x, y) == x >= -range /\ x <= range /\ y >= -range /\ y <= range

\* C1: for every enumerated expression or statement and every start point
\* of the grid -4..4 where naive_eval does not set fatal, the compiled
\* function comes back with the value naive_eval returns and leaves x and y
\* as naive_eval leaves them, on x86-64 and on AArch64.
C1_JitAgreesWithNaive ==
    (ev.k > 0 /\ ev.p > 0 /\ InGrid(ev.x0, ev.y0) /\ ~ev.naive.fatal)
        => /\ ev.jit.st = "ret"
           /\ ev.jit.v = ev.naive.v
           /\ ev.jit.x = ev.naive.x
           /\ ev.jit.y = ev.naive.y

\* The guarded case of x /= e and x %= e at the evaluated point: e comes to
\* 0, or x is the minimum and e comes to -1 (x as it stands once e has been
\* evaluated).
GuardedCase(e, x0, y0) ==
    /\ e.op \in {Operator.DivEq, Operator.ModEq}
    /\ e.left.op = Operator.Var
    /\ LET r == naive_eval(e.right, x0, y0, FALSE)
       IN  r.v = 0 \/ (r.x = MinInt /\ r.v = -1)

\* C5: for x /= e and x %= e, when e evaluates to 0 or x is the minimum and
\* e evaluates to -1, x in memory after the evaluation is what it was before
\* the operator was applied, in naive_eval and in the compiled code of both
\* targets.
C5_GuardLeavesX ==
    (ev.k > 0 /\ ev.p > 0 /\ GuardedCase(EvalExprs[ev.k], ev.x0, ev.y0))
        => LET before == naive_eval(EvalExprs[ev.k].right, ev.x0, ev.y0, FALSE).x
           IN  /\ ev.naive.x = before
               /\ ev.jit.st = "ret"
               /\ ev.jit.x = before

\* The guarded case of L / R and L % R at the evaluated point: R comes to 0,
\* or L comes to the minimum and R to -1 (L evaluated first, R after it).
DivGuarded(e, x0, y0) ==
    /\ e.op \in {Operator.Div, Operator.Mod}
    /\ LET l == naive_eval(e.left, x0, y0, FALSE)
           r == naive_eval(e.right, l.x, l.y, FALSE)
       IN  r.v = 0 \/ (l.v = MinInt /\ r.v = -1)

\* C15: compiled L / R and L % R, when R is 0 or L is the minimum and R is
\* -1, come back (no trap) and return 0, on x86-64 and on AArch64.
C15_GuardedDivisionReturnsZero ==
    (ev.k > 0 /\ ev.p > 0 /\ DivGuarded(EvalExprs[ev.k], ev.x0, ev.y0))
        => /\ ev.jit.st = "ret"
           /\ ev.jit.v = 0

\* The value of the target variable of the assignment e in an outcome o.
StoredIn(e, o) == IF e.left.op = Operator.Var THEN o.x ELSE o.y

\* C16: for every assignment v op= e (all eleven operators, v being x or y)
\* that is not fatal, the value returned equals the value the target
\* variable holds afterwards, in naive_eval and in the compiled function of
\* both targets.
C16_AssignmentReturnsStored ==
    (ev.k > 0 /\ ev.p > 0 /\ is_assignment(EvalExprs[ev.k]) /\ ~ev.naive.fatal)
        => /\ ev.naive.v = StoredIn(EvalExprs[ev.k], ev.naive)
           /\ ev.jit.st = "ret"
           /\ ev.jit.v = StoredIn(EvalExprs[ev.k], ev.jit)

\* What left-then-right evaluation gives for the hand-built expressions
\* with a side effect in one operand, from x = v, y = w:
\* (x++) + x, x + (x++), (y--) * y, (x += y) - x.
LeftFirst(k, v, w) ==
    CASE k = 1 -> [v |-> Wrap(2 * v + 1), x |-> Wrap(v + 1), y |-> w]
      [] k = 2 -> [v |-> Wrap(2 * v), x |-> Wrap(v + 1), y |-> w]
      [] k = 3 -> [v |-> Wrap(w * Wrap(w - 1)), x |-> v, y |-> Wrap(w - 1)]
      [] k = 4 -> [v |-> 0, x |-> Wrap(v + w), y |-> w]

\* The place of the expression under test among the hand-built ones.
TestIndex == ev.k - (Len(EvalExprs) - Len(TestExprs))

\* C17: the left operand of a binary node is evaluated completely, side
\* effects included, before the right one: from x = v, (x++) + x returns
\* 2v + 1 and leaves x = v + 1 (and likewise for the other three hand-built
\* expressions), in naive_eval and in the compiled function of both targets.
C17_LeftOperandFirst ==
    (ev.k > 0 /\ ev.p > 0 /\ TestIndex \in 1..4)
        => LET want == LeftFirst(TestIndex, ev.x0, ev.y0)
           IN  /\ ~ev.naive.fatal
               /\ ev.naive.v = want.v /\ ev.naive.x = want.x /\ ev.naive.y = want.y
               /\ ev.jit.st = "ret"
               /\ ev.jit.v = want.v /\ ev.jit.x = want.x /\ ev.jit.y = want.y

\* C18: for v = x or y holding p, v++ gives p and leaves v = p + 1, v--
\* gives p and leaves v = p - 1, ++v gives p + 1 and leaves v = p + 1, --v
\* gives p - 1 and leaves v = p - 1 (wrapping in the word); the other
\* variable is unchanged; naive_eval and the compiled function of both
\* targets do so.
C18_IncDec ==
    (ev.k > 0 /\ ev.p > 0
        /\ EvalExprs[ev.k].op \in {Operator.PreInc, Operator.PreDec,
                                   Operator.PostInc, Operator.PostDec})
        => LET e == EvalExprs[ev.k]
               on_x == e.right.op = Operator.Var
               p == IF on_x THEN ev.x0 ELSE ev.y0
               after == IF e.op \in {Operator.PreInc, Operator.PostInc}
                        THEN Wrap(p + 1) ELSE Wrap(p - 1)
               value == IF e.op \in {Operator.PostInc, Operator.PostDec} THEN p ELSE after
               x1 == IF on_x THEN after ELSE ev.x0
               y1 == IF on_x THEN ev.y0 ELSE after
           IN  /\ ~ev.naive.fatal
               /\ ev.naive.v = value /\ ev.naive.x = x1 /\ ev.naive.y = y1
               /\ ev.jit.st = "ret"
               /\ ev.jit.v = value /\ ev.jit.x = x1 /\ ev.jit.y = y1

\* The value of a leaf at the start point.
LeafVal(e, x0, y0) ==
    CASE e.op = Operator.Var -> x0
      [] e.op = Operator.VarY -> y0
      [] OTHER -> e.literal

\* q is l / r truncated toward zero.
IsTruncQuotient(q, l, r) ==
    /\ Abs(q) * Abs(r) <= Abs(l)
    /\ Abs(l) < (Abs(q) + 1) * Abs(r)
    /\ q # 0 => (q > 0 <=> ((l > 0) <=> (r > 0)))

\* m is the remainder of l by r with the sign of the dividend.
IsTruncRemainder(m, l, r) ==
    /\ Abs(m) < Abs(r)
    /\ m # 0 => (m > 0 <=> l > 0)
    /\ \E q \in -Abs(l)..Abs(l) : q * r + m = l

\* C19: in naive_eval, l / r and l % r with r = 0, or with l the minimum
\* and r = -1, set fatal, return 0 and leave x and y alone; for every other
\* l, r the quotient is truncated toward zero, the remainder has the sign
\* of the dividend, fatal is not set and x and y are left alone.
C19_NaiveDivMod ==
    (ev.k > 0 /\ ev.p > 0
        /\ EvalExprs[ev.k].op \in {Operator.Div, Operator.Mod}
        /\ IsLeaf(EvalExprs[ev.k].left) /\ IsLeaf(EvalExprs[ev.k].right))
        => LET e == EvalExprs[ev.k]
               l == LeafVal(e.left, ev.x0, ev.y0)
               r == LeafVal(e.right, ev.x0, ev.y0)
           IN  /\ ev.naive.x = ev.x0 /\ ev.naive.y = ev.y0
               /\ IF r = 0 \/ (l = MinInt /\ r = -1)
                  THEN ev.naive.fatal /\ ev.naive.v = 0
                  ELSE /\ ~ev.naive.fatal
                       /\ e.op = Operator.Div => IsTruncQuotient(ev.naive.v, l, r)
                       /\ e.op = Operator.Mod => IsTruncRemainder(ev.naive.v, l, r)

\* x % y was evaluated with a negative x and a positive y that does not
\* divide it: the remainder came out negative.
C19_Witness ==
    /\ ev.k > 0 /\ ev.p > 0
    /\ EvalExprs[ev.k].op = Operator.Mod
    /\ EvalExprs[ev.k].left.op = Operator.Var /\ EvalExprs[ev.k].right.op = Operator.VarY
    /\ ev.x0 = -3 /\ ev.y0 = 2
    /\ ev.naive.v = -1 /\ ~ev.naive.fatal

RECURSIVE PowProduct(_, _, _)
\* acc times n copies of b, for |b| > 1; over once it has left the word
\* (it cannot come back).
PowProduct(acc, b, n) ==
    IF acc < MinInt \/ acc > MaxInt THEN [over |-> TRUE, v |-> 0]
    ELSE IF n = 0 THEN [over |-> FALSE, v |-> acc]
    ELSE PowProduct(acc * b, b, n - 1)

\* x ** y as the rule gives it: [v |-> the value, fatal |-> whether it is
\* fatal].
PowRule(x, y) ==
    LET ok(v) == [v |-> v, fatal |-> FALSE]
        bad   == [v |-> 0, fatal |-> TRUE]
        odd   == y % 2 = 1
    IN  IF y < 0
        THEN CASE x = 0  -> bad
               [] x = 1  -> ok(1)
               [] x = -1 -> ok(IF odd THEN -1 ELSE 1)
               [] OTHER  -> ok(0)
        ELSE CASE x = 0  -> ok(IF y = 0 THEN 1 ELSE 0)
               [] x = 1  -> ok(1)
               [] x = -1 -> ok(IF odd THEN -1 ELSE 1)
               [] OTHER  -> LET p == PowProduct(1, x, y)
                            IN  IF p.over THEN bad ELSE ok(p.v)

\* C20: x ** y in naive_eval is, for y >= 0, the product of y copies of x
\* (1 for y = 0) and fatal when the product leaves the word; for y < 0 it
\* is 1 for x = 1, +1 or -1 by the parity of y for x = -1, 0 for |x| > 1 and
\* fatal for x = 0; and where naive_eval is not fatal the compiled function
\* of both targets returns the same value.
C20_Pow ==
    (ev.k > 0 /\ ev.p > 0
        /\ EvalExprs[ev.k].op = Operator.Pow
        /\ IsLeaf(EvalExprs[ev.k].left) /\ IsLeaf(EvalExprs[ev.k].right))
        => LET e == EvalExprs[ev.k]
               want == PowRule(LeafVal(e.left, ev.x0, ev.y0),
                               LeafVal(e.right, ev.x0, ev.y0))
           IN  /\ ev.naive.fatal = want.fatal
               /\ ev.naive.v = want.v
               /\ ev.naive.x = ev.x0 /\ ev.naive.y = ev.y0
               /\ ~ev.naive.fatal => (ev.jit.st = "ret" /\ ev.jit.v = ev.naive.v)

\* v is the word congruent to the integer n modulo 2^WORD.
IsWordOf(v, n) ==
    /\ v >= MinInt /\ v <= MaxInt
    /\ (v - n) % Pow2(WORD) = 0

\* C21: in naive_eval, l + r, l - r, l * r and -r are the exact result
\* reduced modulo 2^WORD to a two's-complement word, fatal is never set and
\* x and y are left alone (MaxInt + 1 = MinInt, MinInt - 1 = MaxInt,
\* -MinInt = MinInt).
C21_WrappingArithmetic ==
    (ev.k > 0 /\ ev.p > 0
        /\ EvalExprs[ev.k].op \in {Operator.Add, Operator.Sub, Operator.Mul, Operator.Neg}
        /\ (EvalExprs[ev.k].left = None \/ IsLeaf(EvalExprs[ev.k].left))
        /\ IsLeaf(EvalExprs[ev.k].right))
        => LET e == EvalExprs[ev.k]
               l == IF e.left = None THEN 0 ELSE LeafVal(e.left, ev.x0, ev.y0)
               r == LeafVal(e.right, ev.x0, ev.y0)
               exact == CASE e.op = Operator.Add -> l + r
                          [] e.op = Operator.Sub -> l - r
                          [] e.op = Operator.Mul -> l * r
                          [] e.op = Operator.Neg -> 0 - r
           IN  /\ ~ev.naive.fatal
               /\ IsWordOf(ev.naive.v, exact)
               /\ ev.naive.x = ev.x0 /\ ev.naive.y = ev.y0

\* x + y was evaluated at x = MaxInt, y = 1 and came out as MinInt.
C21_Witness ==
    /\ ev.k > 0 /\ ev.p > 0
    /\ EvalExprs[ev.k].op = Operator.Add
    /\ EvalExprs[ev.k].left.op = Operator.Var /\ EvalExprs[ev.k].right.op = Operator.VarY
    /\ ev.x0 = MaxInt /\ ev.y0 = 1
    /\ ev.naive.v = MinInt /\ ~ev.naive.fatal

(***************************************************************************)
(* SpecTarget: compare_jit_naive on compound assignments whose left child  *)
(* is x, y, or a node that is not a variable reference.                    *)
(***************************************************************************)
\* x += y and y += x, then assignments whose left child is a literal, a
\* bracket, a negation, a logical not and a post-increment.
TargetExprs ==
    LET X == make_expr(None, None, -1, Operator.Var, TRUE)
        Y == make_expr(None, None, -1, Operator.VarY, TRUE)
        One == make_expr(None, None, 1, Operator.Literal, TRUE)
        un(op, r) == make_expr(None, r, -1, op, TRUE)
        bi(l, op, r) == make_expr(l, r, -1, op, TRUE)
    IN  << bi(X, Operator.AddEq, Y),
           bi(Y, Operator.AddEq, X),
           bi(One, Operator.AddEq, X),
           bi(un(Operator.Parens, X), Operator.AssignEq, Y),
           bi(un(Operator.Neg, X), Operator.SubEq, Y),
           bi(un(Operator.Not, X), Operator.AssignEq, Y),
           bi(un(Operator.PostInc, X), Operator.AddEq, Y) >>

InitTarget ==
    /\ arch \in Archs
    /\ use_jit = TRUE
    /\ junk \in JunkRegs
    /\ \E k \in 1..Len(TargetExprs) : ev = [k |-> k, p |-> 0]
    /\ cmp = IdleCmp /\ tp = IdleTp /\ reported = {} /\ bin = IdleBin /\ ctx = IdleCtx /\ jobj = IdleJit

\* compare_jit_naive(e, x_val, y_val) at the next grid point: compiled is
\* FALSE when jit_compile_expr panicked (no call is made then), jit is what
\* the call did, naive what the interpreter did.
compare_target ==
    /\ ev.k > 0 /\ ev.p < Len(ProbePoints)
    /\ \E e \in {TargetExprs[ev.k]}, pt \in {ProbePoints[ev.p + 1]} :
       \E g \in {jit_compile_expr(arch, e)},
          n \in {naive_eval(e, pt[1], pt[2], FALSE)} :
          ev' = [k |-> ev.k, p |-> ev.p + 1, x0 |-> pt[1], y0 |-> pt[2],
                 compiled |-> g.ok, naive |-> n,
                 jit |-> IF g.ok THEN JitRun(arch, g.code, pt[1], pt[2], junk)
                         ELSE [v |-> 0, x |-> pt[1], y |-> pt[2], st |-> "none"]]
    /\ UNCHANGED <<arch, use_jit, junk, cmp, tp, reported, bin, ctx, jobj>>

NextTarget == compare_target
SpecTarget == InitTarget /\ [][NextTarget]_vars

\* C22: an assignment whose left child is neither Var nor VarY is rejected:
\* compiling it panics and interpreting it mutates neither x nor y; with
\* Var as left child the target is x (y keeps its value, x receives the
\* result), with VarY the target is y.
C22_NonVariableTargetRejected ==
    (ev.k > 0 /\ ev.p > 0)
        => LET e == TargetExprs[ev.k]
           IN  /\ e.left.op \notin {Operator.Var, Operator.VarY}
                    => /\ ~ev.compiled
                       /\ ev.naive.x = ev.x0 /\ ev.naive.y = ev.y0
               /\ e.left.op = Operator.Var
                    => /\ ev.naive.y = ev.y0
                       /\ ev.naive.x = AssignApply(e.op, ev.x0, ev.y0).v
               /\ e.left.op = Operator.VarY
                    => /\ ev.naive.x = ev.x0
                       /\ ev.naive.y = AssignApply(e.op, ev.y0, ev.x0).v

\* 1 += x at x = 2, y = 1: the interpreter adds x to y and returns 3.
C22_InterpreterWritesY ==
    ~(/\ ev.k > 0 /\ ev.p > 0
      /\ TargetExprs[ev.k].left.op = Operator.Literal
      /\ ev.x0 = 2 /\ ev.y0 = 1
      /\ ~ev.naive.fatal /\ ev.naive.y = 3 /\ ev.naive.v = 3 /\ ev.naive.x = 2)

\* (x) = y compiles on AArch64 and the compiled function stores y into x,
\* while the interpreter leaves both variables as they were.
C22_BracketTargetCompiles ==
    ~(/\ ev.k > 0 /\ ev.p > 0 /\ arch = "aarch64"
      /\ TargetExprs[ev.k].left.op = Operator.Parens
      /\ ev.x0 = 2 /\ ev.y0 = 1
      /\ ev.compiled /\ ev.jit.st = "ret" /\ ev.jit.x = 1
      /\ ev.naive.x = 2 /\ ev.naive.y = 1)

\* The two halves of the target rule that the code does keep: Var selects
\* x and VarY selects y, in the interpreter and in the AArch64 function.
C22_VariableTargets ==
    (ev.k > 0 /\ ev.p > 0 /\ TargetExprs[ev.k].left.op \in {Operator.Var, Operator.VarY})
        => LET e == TargetExprs[ev.k]
               tx == e.left.op = Operator.Var
               nx == IF tx THEN AssignApply(e.op, ev.x0, ev.y0).v ELSE ev.x0
               ny == IF tx THEN ev.y0 ELSE AssignApply(e.op, ev.y0, ev.x0).v
           IN  /\ ev.naive.x = nx /\ ev.naive.y = ny
               /\ arch = "aarch64" => (ev.compiled /\ ev.jit.x = nx /\ ev.jit.y = ny)

(***************************************************************************)
(* SpecEq: == and hash on a pair of expressions, as HashSet::insert and    *)
(* the equality tests of lib.rs use them.                                  *)
(***************************************************************************)
\* The constructors of the tests (lit, var_x, var_y, binary, unary); j says
\* whether the node carries a compiled function.
lit(n, j) == Expr(None, None, n, Operator.Literal, j)
var_x(j) == Expr(None, None, -1, Operator.Var, j)
var_y(j) == Expr(None, None, -1, Operator.VarY, j)
binary(op, l, r, j) == Expr(l, r, -1, op, j)
unary(op, r, j) == Expr(None, r, -1, op, j)

\* x, x+0, x*1, (x), 5, 10, x/y, x++
EqExprs(j) ==
    << var_x(j),
       binary(Operator.Add, var_x(j), lit(0, j), j),
       binary(Operator.Mul, var_x(j), lit(1, j), j),
       unary(Operator.Parens, var_x(j), j),
       lit(5, j),
       lit(10, j),
       binary(Operator.Div, var_x(j), var_y(j), j),
       unary(Operator.PostInc, var_x(j), j) >>

NumEqExprs == Len(EqExprs(FALSE))

\* What each expression returns and leaves in (x, y) on the 81 probe
\* points, by the interpreter.
EqSig == [k \in 1..NumEqExprs |-> NaiveFeed(EqExprs(FALSE)[k])]

InitEq ==
    /\ arch \in Archs
    /\ use_jit = TRUE
    /\ junk \in JunkRegs
    /\ \E a \in 1..NumEqExprs, b \in 1..NumEqExprs, ja \in BOOLEAN, jb \in BOOLEAN :
          /\ a <= b
          /\ cmp = [a |-> a, b |-> b, ja |-> ja, jb |-> jb, ph |-> 0]
    /\ ev = IdleEv /\ tp = IdleTp /\ reported = {} /\ bin = IdleBin /\ ctx = IdleCtx /\ jobj = IdleJit

CmpA == EqExprs(cmp.ja)[cmp.a]
CmpB == EqExprs(cmp.jb)[cmp.b]

\* a == b
DoEq ==
    /\ cmp.a > 0 /\ cmp.ph = 0
    /\ \E r \in {eq(arch, CmpA, CmpB, junk)} :
          cmp' = [a |-> cmp.a, b |-> cmp.b, ja |-> cmp.ja, jb |-> cmp.jb,
                  ph |-> IF r.ok THEN 1 ELSE 9, eqr |-> r]
    /\ UNCHANGED <<arch, use_jit, junk, ev, tp, reported, bin, ctx, jobj>>

\* hash(a), then hash(b)
DoHash ==
    /\ cmp.a > 0 /\ cmp.ph = 1
    /\ \E ha \in {hash(arch, CmpA, junk)}, hb \in {hash(arch, CmpB, junk)} :
          cmp' = [a |-> cmp.a, b |-> cmp.b, ja |-> cmp.ja, jb |-> cmp.jb,
                  ph |-> IF ha.ok /\ hb.ok THEN 2 ELSE 9,
                  eqr |-> cmp.eqr, ha |-> ha, hb |-> hb]
    /\ UNCHANGED <<arch, use_jit, junk, ev, tp, reported, bin, ctx, jobj>>

\* hash(a) once more, from whatever the caller has in its registers by then
DoHashAgain ==
    /\ cmp.a > 0 /\ cmp.ph = 2
    /\ \E j \in JunkRegs :
          /\ junk' = j
          /\ cmp' = [a |-> cmp.a, b |-> cmp.b, ja |-> cmp.ja, jb |-> cmp.jb, ph |-> 3,
                     eqr |-> cmp.eqr, ha |-> cmp.ha, hb |-> cmp.hb,
                     ha2 |-> hash(arch, CmpA, j)]
    /\ UNCHANGED <<arch, use_jit, ev, tp, reported, bin, ctx, jobj>>

NextEq == DoEq \/ DoHash \/ DoHashAgain
SpecEq == InitEq /\ [][NextEq]_vars

\* C8: a == b exactly when a and b return the same value and leave the same
\* (x, y) on every one of the 81 probe points, each probe from fresh copies,
\* the fatal flag not compared; so x+0 == x, x*1 == x, (x) == x and 5 # 10.
C8_EqIsProbeEquality ==
    (cmp.a > 0 /\ cmp.ph # 0)
        => /\ cmp.eqr.ok
           /\ cmp.eqr.v = (EqSig[cmp.a] = EqSig[cmp.b])

\* C9: whether or not a and b carry a compiled function (one may and the
\* other not), a == b implies that hash feeds the same (return, x', y')
\* sequence for both.
C9_EqImpliesSameFeed ==
    (cmp.a > 0 /\ cmp.ph \in {2, 3, 9} /\ cmp.eqr.ok /\ cmp.eqr.v /\ "ha" \in DOMAIN cmp)
        => /\ cmp.ha.ok /\ cmp.hb.ok
           /\ cmp.ha.feed = cmp.hb.feed

\* C10: hashing the same expression twice feeds the same sequence: what a
\* probe returns and leaves behind depends on (x0, y0) only, not on what the
\* registers held on entry.
C10_HashTwiceSame ==
    (cmp.a > 0 /\ cmp.ph = 3)
        => /\ cmp.ha2.ok
           /\ cmp.ha2.feed = cmp.ha.feed

(***************************************************************************)
(* SpecBin: the loops of gen_binary_ops, one innermost iteration (one      *)
(* operator tried on one pair of children) per step.                       *)
(***************************************************************************)
\* The children the loops run over: the seeds and one member for every
\* operator the enumerator applies to x and y.
BinKids ==
    SelectSeq(Cand1 \o Cand2 \o Cand3 \o Cand4,
              LAMBDA e : \/ IsLeaf(e)
                         \/ /\ e.right.op \in {Operator.Var, Operator.VarY}
                            /\ e.left = None \/ e.left.op = Operator.Var)

InitBin ==
    /\ arch \in Archs
    /\ use_jit = TRUE
    /\ junk = 0
    /\ \E op_len \in {1, 2} : bin = [k |-> 1, op_len |-> op_len, n |-> 0]
    /\ ev = IdleEv /\ cmp = IdleCmp /\ tp = IdleTp /\ reported = {} /\ ctx = IdleCtx /\ jobj = IdleJit

\* for e_l in exprs_l { for e_r in exprs_r { for bin_op in binary_ops_by_len }}}
\* at position bin.k; last holds the iteration just done and what it pushed.
gen_binary_ops_step ==
    /\ bin.k > 0
    /\ \E O \in {binary_ops_by_len(bin.op_len)}, K \in {Len(BinKids)} :
          /\ bin.k <= K * K * Len(O)
          /\ \E e_l \in {BinKids[((bin.k - 1) \div (K * Len(O))) + 1]},
                e_r \in {BinKids[(((bin.k - 1) \div Len(O)) % K) + 1]},
                bin_op \in {O[((bin.k - 1) % Len(O)) + 1]} :
             \E out \in {binary_candidate(e_l, e_r, bin_op, FALSE)} :
                bin' = [k |-> bin.k + 1, op_len |-> bin.op_len, n |-> bin.n + 1,
                        last |-> [l |-> e_l, r |-> e_r, op |-> bin_op.op,
                                  pushed |-> out # <<>>, out |-> out]]
    /\ UNCHANGED <<arch, use_jit, junk, ev, cmp, tp, reported, ctx, jobj>>

NextBin == gen_binary_ops_step
SpecBin == InitBin /\ [][NextBin]_vars

\* The rows of the precedence table: the least operator code allowed on the
\* left and on the right; 256 (above every code) for an operator with no row.
PrecRow(o) ==
    CASE o = Operator.BitOr  -> [l |-> \h40, r |-> \h50]
      [] o = Operator.BitXor -> [l |-> \h50, r |-> \h60]
      [] o = Operator.BitAnd -> [l |-> \h60, r |-> \h70]
      [] o \in {Operator.Eq, Operator.Neq} -> [l |-> \h70, r |-> \h80]
      [] o \in {Operator.Lt, Operator.Leq, Operator.Gt, Operator.Geq} -> [l |-> \h80, r |-> \h90]
      [] o \in {Operator.BitShl, Operator.BitShr} -> [l |-> \h90, r |-> \hA0]
      [] o \in {Operator.Add, Operator.Sub} -> [l |-> \hA0, r |-> \hB0]
      [] o \in {Operator.Mul, Operator.Div, Operator.Mod, Operator.Pow} -> [l |-> \hB0, r |-> \hC0]
      [] OTHER -> [l |-> 256, r |-> 256]

MeetsRow(o, l, r) ==
    /\ l.op >= PrecRow(o).l
    /\ r.op >= PrecRow(o).r
    /\ o \in {Operator.Mul, Operator.Div, Operator.Mod, Operator.Pow}
          => ~(r.op = Operator.Literal /\ r.literal = 1)

\* C4: a binary node L B R is built only when code(L) and code(R) reach the
\* thresholds of B's row (and, for * / % **, R is not the literal 1); a
\* candidate below its thresholds is never built.
C4_PrecedenceThresholds ==
    (bin.k > 0 /\ bin.n > 0 /\ bin.last.pushed)
        => /\ MeetsRow(bin.last.op, bin.last.l, bin.last.r)
           /\ bin.last.out[1].op = bin.last.op
           /\ bin.last.out[1].left = bin.last.l
           /\ bin.last.out[1].right = bin.last.r

\* A multiplication was built, and another candidate was turned down.
C4_Witness ==
    /\ bin.k > 0 /\ bin.n > 0
    /\ bin.last.pushed
    /\ bin.last.op = Operator.Mul
    /\ bin.last.r.op = Operator.Literal

\* The thresholds of a binary operator's class as the enumeration rule gives
\* them for every enabled operator: the rows of the table, and for || and &&
\* the operator's own class on the left and the next class on the right.
ClassRow(o) ==
    CASE o = Operator.Or  -> [l |-> \h20, r |-> \h30]
      [] o = Operator.And -> [l |-> \h30, r |-> \h40]
      [] OTHER -> PrecRow(o)

\* L and R are canonical operands for the operator o.
CanonicalFor(o, l, r) ==
    /\ l.op >= ClassRow(o).l
    /\ r.op >= ClassRow(o).r
    /\ o \in {Operator.Mul, Operator.Div, Operator.Mod, Operator.Pow}
          => ~(r.op = Operator.Literal /\ r.literal = 1)

\* C12: for every enabled binary operator B (|| and && included) and every
\* pair L, R of members that is canonical for B and not removed by the
\* constant prune, the iteration of gen_binary_ops builds the node L B R and
\* pushes it for insertion.
C12_CanonicalNodesBuilt ==
    (bin.k > 0 /\ bin.n > 0
        /\ ~(PRUNE_CONST_EXPR /\ bin.last.l.op = Operator.Literal
                              /\ bin.last.r.op = Operator.Literal)
        /\ CanonicalFor(bin.last.op, bin.last.l, bin.last.r))
        => /\ bin.last.pushed
           /\ bin.last.out[1].op = bin.last.op
           /\ bin.last.out[1].left = bin.last.l
           /\ bin.last.out[1].right = bin.last.r

\* The iteration just done was skipped by the constant prune although the
\* precedence table lets the operator take the two literals.
PrunedConstant ==
    /\ bin.k > 0 /\ bin.n > 0
    /\ PRUNE_CONST_EXPR
    /\ bin.last.l.op = Operator.Literal /\ bin.last.r.op = Operator.Literal
    /\ can_apply([op |-> bin.last.op, len |-> bin.op_len], bin.last.l, bin.last.r)

\* What the skipped expression L B R evaluates to.
PrunedValue ==
    naive_eval(make_expr(bin.last.l, bin.last.r, -1, bin.last.op, FALSE), 0, 0, FALSE)

\* C26: whenever L B R is skipped because both operands are literals, E_1
\* already holds a literal whose value is the value of L B R, so the prune
\* drops no semantic class.
C26_PrunedConstantInE1 ==
    PrunedConstant =>
        /\ ~bin.last.pushed
        /\ \E v \in {PrunedValue} :
              /\ ~v.fatal
              /\ \E k \in 1..Len(Cand1) :
                    Cand1[k].op = Operator.Literal /\ Cand1[k].literal = v.v

\* 3 + 3 is skipped and no literal of E_1 is 6.
C26_SixIsLost ==
    ~(/\ PrunedConstant
      /\ bin.last.op = Operator.Add
      /\ bin.last.l.literal = 3 /\ bin.last.r.literal = 3
      /\ ~bin.last.pushed
      /\ PrunedValue.v = 6
      /\ \A k \in 1..Len(LITERALS) : LITERALS[k] # 6)

\* The part of the claim the code keeps: a skipped pair is never pushed,
\* and where the value is one of LITERALS (1 + 2, 3 - 1, 2 | 1, ...) E_1
\* holds it.
C26_PruneSkips ==
    PrunedConstant => ~bin.last.pushed

(***************************************************************************)
(* SpecSearch: search_cached over a statement cache, test_pair over the    *)
(* initial values, test_pair_with_init one step of the target at a time.   *)
(***************************************************************************)
make_statement(var, expr, op, jit) == make_expr(var, expr, -1, op, jit)

\* The cached statements the search runs over, shortest first:
\* x+=y, x=y, x=1, x/=y, x=y-x, x+=y+y/x%y.
Statements(j) ==
    LET x == var_x(j)
        y == var_y(j)
    IN  << make_statement(x, y, Operator.AddEq, j),
           make_statement(x, y, Operator.AssignEq, j),
           make_statement(x, lit(1, j), Operator.AssignEq, j),
           make_statement(x, y, Operator.DivEq, j),
           make_statement(x, binary(Operator.Sub, y, x, j), Operator.AssignEq, j),
           make_statement(x, binary(Operator.Add, y,
                                     binary(Operator.Mod, binary(Operator.Div, y, x, j), y, j), j),
                          Operator.AddEq, j) >>

NumStatements == Len(Statements(FALSE))

\* The end of eval_naive, r2 being what S_y did on (y, x).
eval_naive_result(r2) == [ok |-> ~r2.fatal, x |-> r2.y, y |-> r2.x, st |-> "ret"]

\* eval_naive after S_x, r1 being what S_x did on (x, y): false when it was
\* fatal, S_y on (y, x) otherwise.
eval_naive_second(e_y, r1) ==
    IF r1.fatal THEN [ok |-> FALSE, x |-> r1.x, y |-> r1.y, st |-> "ret"]
    ELSE eval_naive_result(naive_eval(e_y, r1.y, r1.x, FALSE))

\* eval_naive: S_x on (x, y); when it is not fatal, S_y on (y, x).
eval_naive(e_x, e_y, x, y) == eval_naive_second(e_y, naive_eval(e_x, x, y, FALSE))

\* The end of eval_jit, j2 being what f_y did on (y, x).
eval_jit_result(j2) == [ok |-> TRUE, x |-> j2.y, y |-> j2.x, st |-> j2.st]

\* eval_jit after f_x, j1 being what f_x did on (x, y).
eval_jit_second(a, e_y, j1, jk) ==
    IF j1.st # "ret" THEN [ok |-> FALSE, x |-> j1.x, y |-> j1.y, st |-> j1.st]
    ELSE eval_jit_result(JitCall(a, e_y, j1.y, j1.x, jk))

\* eval_jit: f_x(x, y); f_y(y, x); true.
eval_jit(a, e_x, e_y, x, y, jk) == eval_jit_second(a, e_y, JitCall(a, e_x, x, y, jk), jk)

\* One step of the match procedure in the mode of the build.
eval_step(a, uj, e_x, e_y, x, y, jk) ==
    IF uj THEN eval_jit(a, e_x, e_y, x, y, jk) ELSE eval_naive(e_x, e_y, x, y)

\* Whether the reference evaluator flags the step from (x, y) as fatal.
StepIsFatal(e_x, e_y, x, y) == ~eval_naive(e_x, e_y, x, y).ok

InitValues ==
    [k \in 1..((INIT_X_MAX - INIT_X_MIN + 1) * (INIT_Y_MAX - INIT_Y_MIN + 1)) |->
        << INIT_X_MIN + ((k - 1) \div (INIT_Y_MAX - INIT_Y_MIN + 1)),
           INIT_Y_MIN + ((k - 1) % (INIT_Y_MAX - INIT_Y_MIN + 1)) >>]

\* test_pair_with_init(e_x, e_y, init_x, init_y) entered for pair (a, b) and
\* the q-th initial values.
EnterPair(a, b, q) ==
    [ph |-> "step", a |-> a, b |-> b, q |-> q,
     x |-> InitValues[q][1], y |-> InitValues[q][2], i |-> 0,
     xs |-> <<>>, fatal |-> FALSE, ret |-> FALSE]

InitSearch ==
    /\ arch \in Archs
    /\ use_jit \in BOOLEAN
    /\ junk \in JunkRegs
    /\ tp = EnterPair(1, 1, 1)
    /\ reported = {}
    /\ ev = IdleEv /\ cmp = IdleCmp /\ bin = IdleBin /\ ctx = IdleCtx /\ jobj = IdleJit

\* The body of the loop of test_pair_with_init for ANSWER[i]: one step, then
\* match_one on x; the call returns false when either fails and
\* match_final (true) after the last element.
test_pair_with_init_step ==
    /\ tp.ph = "step"
    /\ \E e_x \in {Statements(use_jit)[tp.a]}, e_y \in {Statements(use_jit)[tp.b]} :
       \E r \in {eval_step(arch, use_jit, e_x, e_y, tp.x, tp.y, junk)},
          f \in {tp.fatal \/ StepIsFatal(e_x, e_y, tp.x, tp.y)} :
          IF r.st # "ret"
          THEN tp' = [tp EXCEPT !.ph = "dead"]
          ELSE IF ~r.ok \/ ~match_one(tp.i, r.x)
          THEN tp' = [tp EXCEPT !.ph = "ret", !.ret = FALSE, !.x = r.x, !.y = r.y,
                                !.i = tp.i + 1, !.xs = Append(tp.xs, r.x), !.fatal = f]
          ELSE tp' = [tp EXCEPT !.ph = IF tp.i + 1 = Len(ANSWER) THEN "ret" ELSE "step",
                                !.ret = (tp.i + 1 = Len(ANSWER)),
                                !.x = r.x, !.y = r.y, !.i = tp.i + 1,
                                !.xs = Append(tp.xs, r.x), !.fatal = f]
    /\ UNCHANGED <<arch, use_jit, junk, ev, cmp, reported, bin, ctx, jobj>>

\* The pair after (a, b) in the loops of search_cached, or "done".
NextPair(a, b) ==
    IF b < NumStatements THEN EnterPair(a, b + 1, 1)
    ELSE IF a < NumStatements THEN EnterPair(a + 1, 1, 1)
    ELSE [ph |-> "done"]

\* test_pair takes the value test_pair_with_init returned: Some(init) at the
\* first true, the next initial values otherwise, None after the last; then
\* search_cached prints the pair (print_result) and moves on.
test_pair_return ==
    /\ tp.ph = "ret"
    /\ IF tp.ret
       THEN /\ reported' = reported \cup
                   {[a |-> tp.a, b |-> tp.b, init_x |-> InitValues[tp.q][1],
                     init_y |-> InitValues[tp.q][2], fatal |-> tp.fatal]}
            /\ tp' = NextPair(tp.a, tp.b)
       ELSE /\ reported' = reported
            /\ tp' = IF tp.q < Len(InitValues) THEN EnterPair(tp.a, tp.b, tp.q + 1)
                     ELSE NextPair(tp.a, tp.b)
    /\ UNCHANGED <<arch, use_jit, junk, ev, cmp, bin, ctx, jobj>>

NextSearch == test_pair_with_init_step \/ test_pair_return
SpecSearch == InitSearch /\ [][NextSearch]_vars

\* A step as the match procedure is described: S_x on (x, y), then S_y on
\* (y, x), by the evaluator of the build, with no notion of a fatal step.
PlainStep(e_x, e_y, x, y) ==
    IF use_jit THEN eval_jit(arch, e_x, e_y, x, y, junk)
    ELSE LET r1 == naive_eval(e_x, x, y, FALSE)
             r2 == naive_eval(e_y, r1.y, r1.x, FALSE)
         IN  [ok |-> TRUE, x |-> r2.y, y |-> r2.x, st |-> "ret"]

RECURSIVE AllMatch(_, _, _, _, _)
\* From (x, y), the steps for T[i+1..] each leave x equal to the element.
AllMatch(a, b, x, y, i) ==
    IF i = Len(ANSWER) THEN TRUE
    ELSE LET r == PlainStep(Statements(use_jit)[a], Statements(use_jit)[b], x, y)
         IN  r.st = "ret" /\ r.x = ANSWER[i + 1] /\ AllMatch(a, b, r.x, r.y, i + 1)

RECURSIVE AllMatchNoFatal(_, _, _, _, _)
\* The same, and no step is one that the build's evaluator reports as
\* failed (only eval_naive ever does).
AllMatchNoFatal(a, b, x, y, i) ==
    IF i = Len(ANSWER) THEN TRUE
    ELSE LET r == eval_step(arch, use_jit, Statements(use_jit)[a],
                            Statements(use_jit)[b], x, y, junk)
         IN  r.st = "ret" /\ r.ok /\ r.x = ANSWER[i + 1]
             /\ AllMatchNoFatal(a, b, r.x, r.y, i + 1)

Returned == tp.ph = "ret"

\* C2 as stated: test_pair_with_init returns true exactly when x after
\* every step equals the target element of that step, and returns false at
\* the first step whose comparison fails, running no further step.
C2_TrueIffEveryStepMatches ==
    Returned =>
        /\ tp.ret = AllMatch(tp.a, tp.b, InitValues[tp.q][1], InitValues[tp.q][2], 0)
        /\ \A k \in 1..(Len(tp.xs) - 1) : tp.xs[k] = ANSWER[k]
        /\ ~tp.ret => tp.xs[Len(tp.xs)] # ANSWER[Len(tp.xs)]

\* C2 (amended): test_pair_with_init returns true exactly when x after
\* every step equals the target element of that step and, in reference
\* mode, no step is fatal; it returns false at the first step that is fatal
\* (reference mode) or whose comparison fails, running no further step.
C2_TrueIffEveryStepMatchesNoFatal ==
    Returned =>
        /\ tp.ret = AllMatchNoFatal(tp.a, tp.b, InitValues[tp.q][1], InitValues[tp.q][2], 0)
        /\ tp.i = Len(tp.xs)
        /\ \A k \in 1..(Len(tp.xs) - 1) : tp.xs[k] = ANSWER[k]
        /\ tp.ret => Len(tp.xs) = Len(ANSWER) /\ tp.xs[Len(tp.xs)] = ANSWER[Len(tp.xs)]
        /\ ~tp.ret => \/ tp.xs[Len(tp.xs)] # ANSWER[Len(tp.xs)]
                      \/ ~use_jit /\ tp.fatal

\* A call that returned true after all twelve steps, and one that returned
\* false on a fatal first step although x matched.
C2_Witness ==
    /\ Returned /\ tp.ret /\ Len(tp.xs) = Len(ANSWER)
    /\ reported # {}

RECURSIVE RefAccepts(_, _, _, _, _)
\* test_pair_with_init in reference mode.
RefAccepts(a, b, x, y, i) ==
    IF i = Len(ANSWER) THEN TRUE
    ELSE LET r == eval_naive(Statements(FALSE)[a], Statements(FALSE)[b], x, y)
         IN  r.ok /\ r.x = ANSWER[i + 1] /\ RefAccepts(a, b, r.x, r.y, i + 1)

\* What the search reports in reference mode: for every pair, the first
\* initial values test_pair_with_init accepts.
RefReport ==
    {<<a, b, q>> \in (1..NumStatements) \X (1..NumStatements) \X (1..Len(InitValues)) :
        /\ RefAccepts(a, b, InitValues[q][1], InitValues[q][2], 0)
        /\ \A p \in 1..(q - 1) : ~RefAccepts(a, b, InitValues[p][1], InitValues[p][2], 0)}

\* C6: a (pair, initial values) with a fatal step is never reported, in JIT
\* mode as in reference mode, and when the search is over the matches
\* reported are those of reference mode.
C6_FatalNeverReported ==
    /\ \A r \in reported : ~r.fatal
    /\ tp.ph = "done" =>
          {<<r.a, r.b, r.init_x, r.init_y>> : r \in reported}
              = {<<t[1], t[2], InitValues[t[3]][1], InitValues[t[3]][2]>> : t \in RefReport}

\* C7: with the default target and initial values, when the search ends it
\* has reported a pair that reproduces the whole target (x += y ; y += x
\* from x = 1, y = 1, or an equivalent pair).
C7_SearchFindsTarget ==
    tp.ph \in {"done", "dead"} =>
        \E r \in reported : RefAccepts(r.a, r.b, r.init_x, r.init_y, 0)

(***************************************************************************)
(* SpecGen: main's first phase, gen_expressions(n) and gen_statements(n)   *)
(* for n = 1..MaxN, one HashSet insertion per step.                        *)
(***************************************************************************)
MaxN == 3

\* The last length generated: MaxN with compiled expressions, one more with
\* the interpreter alone (USE_JIT = false), where the two-byte operators and
\* the parentheses over length 2 come in.
GenDepth(uj) == IF uj THEN MaxN ELSE MaxN + 1

\* The expressions of the members, per length, as the generator reads them.
MembersOf(sets) == [n \in 1..Len(sets) |-> [k \in 1..Len(sets[n]) |-> sets[n][k].e]]

\* What phase ph of length n offers to its set, in program order, reading
\* the finished sets.
GenCandidates(ph, n, sets) ==
    IF ph = "expr"
    THEN gen_candidates(MembersOf(sets), n, use_jit)
    ELSE gen_statement_candidates(MembersOf(sets), var_x(use_jit), n, use_jit)

InitGen ==
    /\ arch \in Archs
    /\ use_jit \in BOOLEAN
    /\ junk \in (IF use_jit THEN JunkRegs ELSE {0})
    /\ ctx = [ph |-> "expr", n |-> 1, k |-> 0, en |-> <<>>, dups |-> 0,
              expressions |-> <<>>, statements |-> <<>>,
              cands |-> GenCandidates("expr", 1, <<>>)]
    /\ ev = IdleEv /\ cmp = IdleCmp /\ tp = IdleTp /\ reported = {} /\ bin = IdleBin /\ jobj = IdleJit

\* HashSet::insert of the next candidate (en.insert, cache_expression,
\* extend): hash it, compare it with the members of the same hash, keep it
\* when none is equal.  Each member carries the sequence its hash fed (h)
\* and what the interpreter gives on the probes (sig).
cache_expression ==
    /\ ctx.ph \in {"expr", "stmt"}
    /\ ctx.k < Len(ctx.cands)
    /\ \E c \in {ctx.cands[ctx.k + 1]} :
       \E h \in {hash(arch, c, junk)} :
       \E same \in {{m \in 1..Len(ctx.en) : ctx.en[m].h = h.feed}} :
       \E cmps \in {[m \in same |-> eq(arch, ctx.en[m].e, c, junk)]} :
          IF ~h.ok \/ \E m \in same : ~cmps[m].ok
          THEN ctx' = [ctx EXCEPT !.ph = "dead"]
          ELSE IF \E m \in same : cmps[m].v
          THEN ctx' = [ctx EXCEPT !.k = ctx.k + 1, !.dups = 1]
          ELSE ctx' = [ctx EXCEPT !.k = ctx.k + 1,
                           !.en = Append(ctx.en,
                                     [e |-> c, h |-> h.feed, sig |-> NaiveFeed(c)])]
    /\ UNCHANGED <<arch, use_jit, junk, ev, cmp, tp, reported, bin, jobj>>

\* A gen_expressions that puts its set into the context as soon as the first
\* candidate has been offered.
gen_expressions_done_early ==
    /\ ctx.ph = "expr"
    /\ ctx.k >= 1
    /\ \E sets \in {Append(ctx.expressions, ctx.en)} :
          ctx' = [ctx EXCEPT !.ph = "stmt", !.k = 0, !.en = <<>>,
                             !.expressions = sets,
                             !.cands = GenCandidates("stmt", ctx.n, sets)]
    /\ UNCHANGED <<arch, use_jit, junk, ev, cmp, tp, reported, bin, jobj>>

\* ctx.expressions.insert(n, en), and on to gen_statements(n).
gen_expressions_done ==
    /\ ctx.ph = "expr"
    /\ ctx.k = Len(ctx.cands)
    /\ \E sets \in {Append(ctx.expressions, ctx.en)} :
          ctx' = [ctx EXCEPT !.ph = "stmt", !.k = 0, !.en = <<>>,
                             !.expressions = sets,
                             !.cands = GenCandidates("stmt", ctx.n, sets)]
    /\ UNCHANGED <<arch, use_jit, junk, ev, cmp, tp, reported, bin, jobj>>

\* ctx.statements.insert(n, sn), and on to the next length.
gen_statements_done ==
    /\ ctx.ph = "stmt"
    /\ ctx.k = Len(ctx.cands)
    /\ ctx' = [ctx EXCEPT !.ph = IF ctx.n < GenDepth(use_jit) THEN "expr" ELSE "done",
                          !.n = IF ctx.n < GenDepth(use_jit) THEN ctx.n + 1 ELSE ctx.n,
                          !.k = 0, !.en = <<>>,
                          !.statements = Append(ctx.statements, ctx.en),
                          !.cands = IF ctx.n < GenDepth(use_jit)
                                    THEN GenCandidates("expr", ctx.n + 1, ctx.expressions)
                                    ELSE <<>>]
    /\ UNCHANGED <<arch, use_jit, junk, ev, cmp, tp, reported, bin, jobj>>

NextGen == cache_expression \/ gen_expressions_done \/ gen_statements_done
SpecGen == InitGen /\ [][NextGen]_vars

\* No two members of the set give the same (return, x', y') on all probes.
Distinct(set) == Cardinality({set[k].sig : k \in 1..Len(set)}) = Len(set)

\* C3: once gen_expressions(n) has finished, any two distinct members of
\* E_n differ in return value or in (x', y') on at least one of the 81 probe
\* points, and likewise any two members of S_n after gen_statements(n).
C3_MembersDiffer ==
    ctx.ph \in {"expr", "stmt", "done", "dead"} =>
        /\ \A n \in 1..Len(ctx.expressions) : Distinct(ctx.expressions[n])
        /\ \A n \in 1..Len(ctx.statements) : Distinct(ctx.statements[n])
        /\ Distinct(ctx.en)

\* Generation is over, a duplicate was turned down on the way, and the last
\* sets hold several members.
C3_Witness ==
    /\ ctx.ph = "done"
    /\ ctx.dups = 1
    /\ Len(ctx.expressions[MaxN]) > 1
    /\ Len(ctx.statements[MaxN]) > 1

\* print_node, and the "++" / "--" print_expr_with_parent adds after a
\* post-increment or post-decrement: the number of characters of the
\* operator's glyph (the closing bracket of a Parens node included).
glyph_width(op) ==
    CASE op \in {Operator.Or, Operator.And, Operator.Eq, Operator.Neq, Operator.Leq,
                 Operator.Geq, Operator.BitShl, Operator.BitShr, Operator.Pow,
                 Operator.PreInc, Operator.PreDec, Operator.PostInc, Operator.PostDec,
                 Operator.Parens,
                 Operator.BitOrEq, Operator.BitXorEq, Operator.BitAndEq, Operator.AddEq,
                 Operator.SubEq, Operator.MulEq, Operator.DivEq, Operator.ModEq} -> 2
      [] op \in {Operator.BitShlEq, Operator.BitShrEq} -> 3
      [] OTHER -> 1

\* The syntactic length of an expression: 1 for a variable or literal, the
\* glyph width of every operator, 2 for ++ / --, 2 for a pair of brackets.
RECURSIVE SynLen(_)
SynLen(e) ==
    IF e = None THEN 0
    ELSE IF IsLeaf(e) THEN 1
    ELSE SynLen(e.left) + glyph_width(e.op) + SynLen(e.right)

\* Every member of the sequence `set` has syntactic length n.
AllOfLength(set, n) == \A k \in 1..Len(set) : SynLen(set[k].e) = n

\* C13: every member of E_n has syntactic length exactly n, at every moment
\* of the generation: the finished sets, the set gen_expressions(n) is
\* filling, and everything a rule of gen_expressions(n) offers to it (seeds,
\* ++ / --, binary, unary, brackets), inserted or turned down.
C13_MembersHaveLengthN ==
    ctx.ph \in {"expr", "stmt", "done"} =>
        /\ \A n \in 1..Len(ctx.expressions) : AllOfLength(ctx.expressions[n], n)
        /\ ctx.ph = "expr" =>
              /\ AllOfLength(ctx.en, ctx.n)
              /\ \A k \in 1..Len(ctx.cands) : SynLen(ctx.cands[k]) = ctx.n

\* E_3 has just been inserted and holds members of three rules: a ++ / --
\* node, a binary node and a unary node over a member of E_2.
C13_Witness ==
    /\ ctx.ph = "stmt" /\ ctx.n = MaxN /\ ctx.k = 0
    /\ \E k \in 1..Len(ctx.expressions[MaxN]) :
          ctx.expressions[MaxN][k].e.op = Operator.PostInc
    /\ \E k \in 1..Len(ctx.expressions[MaxN]) :
          ctx.expressions[MaxN][k].e.op = Operator.Add
    /\ \E k \in 1..Len(ctx.expressions[MaxN]) :
          /\ ctx.expressions[MaxN][k].e.op = Operator.Neg
          /\ ctx.expressions[MaxN][k].e.right.op \in {Operator.Neg, Operator.BitNot, Operator.Not}

\* The sets of lengths below n, as the builder of length n may read them.
Below(sets, n) == SubSeq(MembersOf(sets), 1, n - 1)

\* C14: at every step of the generation, (1) while length n is being built
\* the context holds E_m exactly for m < n, and what is offered for E_n and
\* for S_n is a function of the sets of lengths below n alone; (2) no step
\* changes a set already in the context, E_m or S_m; (3) E_n enters the
\* context only in the step after the last candidate of the last rule of
\* gen_expressions(n) was offered, and it is the set that was filled.
C14_FinishedSetsFrozen ==
    [][ctx.ph \in {"expr", "stmt"} =>
        /\ ctx.ph = "expr" =>
              /\ Len(ctx.expressions) = ctx.n - 1 /\ Len(ctx.statements) = ctx.n - 1
              /\ ctx.cands = gen_candidates(Below(ctx.expressions, ctx.n), ctx.n, use_jit)
        /\ ctx.ph = "stmt" =>
              /\ Len(ctx.expressions) = ctx.n /\ Len(ctx.statements) = ctx.n - 1
              /\ ctx.cands = gen_statement_candidates(Below(ctx.expressions, ctx.n),
                                                      var_x(use_jit), ctx.n, use_jit)
        /\ \A m \in 1..Len(ctx.expressions) : ctx'.expressions[m] = ctx.expressions[m]
        /\ \A m \in 1..Len(ctx.statements) : ctx'.statements[m] = ctx.statements[m]
        /\ Len(ctx'.expressions) >= Len(ctx.expressions)
        /\ Len(ctx'.statements) >= Len(ctx.statements)
        /\ Len(ctx'.expressions) # Len(ctx.expressions) =>
              /\ ctx.ph = "expr" /\ ctx.k = Len(ctx.cands)
              /\ ctx'.expressions = Append(ctx.expressions, ctx.en)
        /\ Len(ctx'.statements) # Len(ctx.statements) =>
              /\ ctx.ph = "stmt" /\ ctx.k = Len(ctx.cands)
              /\ ctx'.statements = Append(ctx.statements, ctx.en)
      ]_vars

\* Length 3 is being built on top of the finished E_1, E_2, S_1, S_2: some
\* candidates were offered and kept, others are still to come.
C14_Witness ==
    /\ ctx.ph = "expr" /\ ctx.n = MaxN
    /\ Len(ctx.expressions) = MaxN - 1 /\ Len(ctx.statements) = MaxN - 1
    /\ Len(ctx.expressions[MaxN - 1]) > 1 /\ Len(ctx.statements[MaxN - 1]) > 1
    /\ Len(ctx.en) > 1 /\ ctx.k < Len(ctx.cands)

\* params.rs
MAX_LENGTH == 10
MAX_CACHE_LENGTH == 7

\* How far total lengths go beyond the cached ones.
BeyondCache == MAX_LENGTH - MAX_CACHE_LENGTH

\* dfs_search's closure gen_stmts_for_expr for target_n: x <op>= expr for
\* every assignment operator that brings the length to target_n.
gen_stmts_for_expr(var, expr, expr_len, target_n, jit) ==
    LET fits == SelectSeq(ASSIGN_OPERATORS, LAMBDA o : expr_len + o.len = target_n)
    IN  [a \in 1..Len(fits) |-> make_statement(var, expr, fits[a].op, jit)]

\* A statement of the form x <op>= R.
IsStatement(s) == is_assignment(s) /\ s.left # None /\ s.left.op = Operator.Var

\* Some member of the set gives on every probe what s gives.
HasEqual(set, s) == \E sig \in {NaiveFeed(s)} : \E k \in 1..Len(set) : set[k].sig = sig

\* C23: every statement in the statement map, and every statement
\* dfs_search synthesizes from a cached expression, has an assignment
\* operator on top and Var as its left child; and once S_n is stored, for
\* every assignment operator of length k and every R in E_(n-k), S_n holds
\* a statement that gives what x <op>= R gives on every probe.
C23_StatementsAssignToX ==
    /\ ctx.ph \in {"expr", "stmt", "done"} =>
          /\ \A n \in 1..Len(ctx.statements) : \A k \in 1..Len(ctx.statements[n]) :
                IsStatement(ctx.statements[n][k].e)
          /\ ctx.ph = "stmt" => \A k \in 1..Len(ctx.en) : IsStatement(ctx.en[k].e)
    /\ (ctx.ph \in {"expr", "done"} /\ ctx.k = 0) =>
          \A n \in 1..Len(ctx.statements) : \A a \in 1..Len(ASSIGN_OPERATORS) :
              \A m \in {n - ASSIGN_OPERATORS[a].len} \cap (1..n) :
                  \A k \in 1..Len(ctx.expressions[m]) :
                      HasEqual(ctx.statements[n],
                               make_expr(var_x(use_jit), ctx.expressions[m][k].e, -1,
                                         ASSIGN_OPERATORS[a].op, use_jit))
    /\ ctx.ph = "done" =>
          \A t \in (Len(ctx.expressions) + 1)..(Len(ctx.expressions) + BeyondCache) :
              \A m \in 1..Len(ctx.expressions) : \A k \in 1..Len(ctx.expressions[m]) :
                  \E st \in {gen_stmts_for_expr(var_x(use_jit), ctx.expressions[m][k].e,
                                                m, t, use_jit)} :
                      /\ \A i \in 1..Len(st) : IsStatement(st[i])
                      /\ (m + 1 = t \/ m + 2 = t \/ m + 3 = t) => Len(st) > 0

\* S_3 has just been stored by a build with the JIT: it holds x = R for a
\* member R of E_2 and a two-byte assignment over a seed, and fewer members
\* than the forty-odd statements that were offered (x |= x, x &= x, ... give
\* the same on every probe).
C23_Witness ==
    /\ use_jit /\ ctx.ph = "done" /\ Len(ctx.statements) = MaxN
    /\ \E k \in 1..Len(ctx.statements[MaxN]) :
          /\ ctx.statements[MaxN][k].e.op = Operator.AssignEq
          /\ ~IsLeaf(ctx.statements[MaxN][k].e.right)
    /\ \E k \in 1..Len(ctx.statements[MaxN]) :
          /\ ctx.statements[MaxN][k].e.op = Operator.MulEq
          /\ ctx.statements[MaxN][k].e.right.op = Operator.VarY
    /\ Len(ctx.statements[MaxN])
          < Len(gen_statement_candidates(MembersOf(ctx.expressions), var_x(use_jit),
                                         MaxN, use_jit))

\* e gives on every probe what sig records.
SameOnProbes(e, sig) ==
    \A k \in 1..Len(ProbePoints) : NaiveProbe(e, ProbePoints[k]) = sig[k]

\* Everything a member of the next set with an operator of unary rank can
\* be: a unary operator over a member of `top` of unary rank, or brackets
\* around a member of `mid` (the set two lengths below).
UnaryRankOver(top, mid) ==
    Flatten([k \in 1..Len(top) |->
                IF top[k].op >= \hC0
                THEN [m \in 1..Len(UNARY_OPERATORS) |->
                         make_expr(None, top[k], -1, UNARY_OPERATORS[m], use_jit)]
                ELSE <<>>])
    \o [k \in 1..Len(mid) |-> make_expr(None, mid[k], -1, Operator.Parens, use_jit)]

\* What gen_expressions(n + 2) can offer when E sets of lengths 1..n are
\* E: the binary candidates and brackets, which read lengths up to n, and
\* the unary candidates over whatever of unary rank length n + 1 can hold.
OfferedTwoAbove(E) ==
    gen_candidates(Append(E, UnaryRankOver(E[Len(E)], E[Len(E) - 1])), Len(E) + 2, use_jit)

\* The binary nodes of length n + 2 with b, of length n, as one operand
\* and a seed as the other, that the table refuses when a stands for b.
BuiltOnOnly(E, a, b) ==
    LET n == Len(E)
        with(e) == [E EXCEPT ![n] = <<e>>]
        pick(e) == gen_binary_ops(with(e), n + 2, n, 1, use_jit)
                     \o gen_binary_ops(with(e), n + 2, 1, 1, use_jit)
        onA == {[op |-> t.op, l |-> t.left = a, o |-> IF t.left = a THEN t.right ELSE t.left] :
                   t \in {pick(a)[k] : k \in 1..Len(pick(a))}}
    IN  {t \in {pick(b)[k] : k \in 1..Len(pick(b))} :
            [op |-> t.op, l |-> t.left = b, o |-> IF t.left = b THEN t.right ELSE t.left]
                \notin onA}

\* C29: which of several semantically equal candidates a set keeps does not
\* change the classes of the later sets: when E_3 is stored, for every
\* member a and every binary candidate b of gen_expressions(3) that gives
\* what a gives on all probes, whatever gen_expressions(5) would build on b
\* had b been inserted first has an equal among what it offers with a kept.
C29_ClassesIgnoreOrder ==
    (ctx.ph = "stmt" /\ ctx.n = MaxN /\ ctx.k = 0) =>
        \E E \in {MembersOf(ctx.expressions)} :
        \E offered \in {OfferedTwoAbove(E)} :
        \E cands \in {gen_binary_ops(Below(ctx.expressions, MaxN), MaxN, 1, 1, use_jit)} :
            \A i \in 1..Len(E[MaxN]) : \A k \in 1..Len(cands) :
                (/\ E[MaxN][i].left # None
                 /\ cands[k].op # E[MaxN][i].op
                 /\ SameOnProbes(cands[k], ctx.expressions[MaxN][i].sig))
                    => \A t \in BuiltOnOnly(E, E[MaxN][i], cands[k]) :
                           \E sig \in {NaiveFeed(t)} :
                               \E c \in 1..Len(offered) : SameOnProbes(offered[c], sig)

\* E_3 keeps x+x, offered before x*2, which is equal to it; the table lets
\* / take x*2 as left operand and refuses x+x; and nothing gen_expressions(5)
\* can offer from the kept sets gives what x*2/y gives.
C29_TwiceXOverY ==
    ~(/\ ctx.ph = "stmt" /\ ctx.n = MaxN /\ ctx.k = 0
      /\ \E x \in {var_x(use_jit)}, y \in {var_y(use_jit)} :
         \E a \in {make_expr(x, x, -1, Operator.Add, use_jit)},
            b \in {make_expr(x, lit(2, use_jit), -1, Operator.Mul, use_jit)} :
         \E t \in {make_expr(b, y, -1, Operator.Div, use_jit)} :
            /\ \E i \in 1..Len(ctx.expressions[MaxN]) :
                  /\ ctx.expressions[MaxN][i].e = a
                  /\ SameOnProbes(b, ctx.expressions[MaxN][i].sig)
            /\ binary_candidate(b, y, [op |-> Operator.Div, len |-> 1], use_jit) = <<t>>
            /\ binary_candidate(a, y, [op |-> Operator.Div, len |-> 1], use_jit) = <<>>
            /\ \E sig \in {NaiveFeed(t)} :
               \E offered \in {OfferedTwoAbove(MembersOf(ctx.expressions))} :
                  \A c \in 1..Len(offered) : ~SameOnProbes(offered[c], sig))

(***************************************************************************)
(* SpecJit: one Jit object and the calls a holder can make on it, in any   *)
(* order: compile, finalize, func.                                         *)
(***************************************************************************)
\* How many times compile is called on one buffer.
MaxCompiles == 2

\* Jit::new: an empty buffer, nothing cached.
Jit_new == [code |-> <<>>, regind |-> 0, cached_func |-> "None"]

\* Jit::compile: the generated code g is written at the current offset.
Jit_compile(j, g) == [j EXCEPT !.code = @ \o g.code, !.regind = g.regind]

\* Jit::finalize: cached_func = Some(memory.ptr).
Jit_finalize(j) == [j EXCEPT !.cached_func = "Some(ptr)"]

\* The message of the expect in Jit::func.
NotFinalized == "JIT not finalized - call finalize() first"

\* A func that hands out the buffer's address whatever cached_func holds.
Jit_func_unchecked(j) == [panic |-> "", ret |-> "ptr"]

\* Jit::func: cached_func.expect(..): the panic message, or the pointer.
Jit_func(j) ==
    IF j.cached_func = "None" THEN [panic |-> NotFinalized, ret |-> "none"]
    ELSE [panic |-> "", ret |-> "ptr"]

InitJit ==
    /\ arch \in Archs
    /\ use_jit = TRUE
    /\ junk = 0
    /\ jobj = [ph |-> "live", j |-> Jit_new, finalized |-> FALSE, compiles |-> 0,
               last |-> [op |-> "new"]]
    /\ ev = IdleEv /\ cmp = IdleCmp /\ tp = IdleTp /\ reported = {}
    /\ bin = IdleBin /\ ctx = IdleCtx

\* jit.compile(&e)
DoCompile ==
    /\ jobj.ph = "live" /\ jobj.compiles < MaxCompiles
    /\ \E k \in 1..NumEqExprs :
       \E g \in {jit_compile_expr(arch, EqExprs(TRUE)[k])} :
          jobj' = [jobj EXCEPT !.j = Jit_compile(jobj.j, g),
                               !.compiles = @ + 1, !.last = [op |-> "compile"]]
    /\ UNCHANGED <<arch, use_jit, junk, ev, cmp, tp, reported, bin, ctx>>

\* jit.finalize(); finalized remembers that the call was made.
DoFinalize ==
    /\ jobj.ph = "live"
    /\ jobj' = [jobj EXCEPT !.j = Jit_finalize(jobj.j), !.finalized = TRUE,
                            !.last = [op |-> "finalize"]]
    /\ UNCHANGED <<arch, use_jit, junk, ev, cmp, tp, reported, bin, ctx>>

\* jit.func(); a panic unwinds and drops the object.
DoFunc ==
    /\ jobj.ph = "live"
    /\ \E r \in {Jit_func(jobj.j)} :
          jobj' = [jobj EXCEPT !.ph = IF r.panic # "" THEN "panicked" ELSE "live",
                               !.last = [op |-> "func", panic |-> r.panic, ret |-> r.ret]]
    /\ UNCHANGED <<arch, use_jit, junk, ev, cmp, tp, reported, bin, ctx>>

NextJit == DoCompile \/ DoFinalize \/ DoFunc
SpecJit == InitJit /\ [][NextJit]_vars

\* C11: func panics with "JIT not finalized ..." whenever finalize has not
\* been called on the object (after new, after compile), and returns the
\* entry pointer whenever it has.
C11_FuncNeedsFinalize ==
    (jobj.ph # "idle" /\ jobj.last.op = "func")
        => IF jobj.finalized
           THEN jobj.last.panic = "" /\ jobj.last.ret = "ptr" /\ jobj.ph = "live"
           ELSE jobj.last.panic = NotFinalized /\ jobj.ph = "panicked"

\* func was called on a buffer that was compiled twice and never finalized.
C11_Witness ==
    /\ jobj.ph = "panicked"
    /\ jobj.compiles = MaxCompiles
    /\ jobj.last.op = "func"

(***************************************************************************)
(* SpecPool: the worker threads of the rayon pool building expressions     *)
(* with make_expr and calling the compiled functions of the expressions    *)
(* that were handed on, one memory access or call per step.                *)
(***************************************************************************)
\* Worker threads, buffers created in a run, calls made into one buffer.
NumThreads == 2
MaxBufs == 3
MaxCalls == 2

Threads == 1..NumThreads

\* The expressions the workers build.
PoolExprs == SubSeq(EqExprs(TRUE), 1, 2)

\* A thread between two pieces of work; wx is the thread's side of
\* pthread_jit_write_protect_np ("x": JIT pages executable, not writable),
\* which only Apple targets have.
IdleThread == [pc |-> "idle", b |-> 0, wx |-> "x"]

\* JitMemory: can thread state t write to / run from a JIT page.
CanWrite(os, t) == os # "macos" \/ t.wx = "w"
CanRun(os, t)   == os # "macos" \/ t.wx = "x"

InitPool ==
    /\ arch \in Archs
    /\ use_jit = TRUE
    /\ junk = 0
    /\ \E os \in {"linux", "macos"} :
          jobj = [ph |-> "pool", os |-> os, bufs |-> <<>>, shared |-> {},
                  th |-> [t \in Threads |-> IdleThread]]
    /\ ev = IdleEv /\ cmp = IdleCmp /\ tp = IdleTp /\ reported = {}
    /\ bin = IdleBin /\ ctx = IdleCtx

\* A pool whose make_expr hands the buffer on before it is compiled.
pool_new_shared(t) ==
    /\ jobj.ph = "pool" /\ jobj.th[t].pc = "idle" /\ Len(jobj.bufs) < MaxBufs
    /\ \E k \in 1..Len(PoolExprs) :
       \E g \in {jit_compile_expr(arch, PoolExprs[k])} :
          jobj' = [jobj EXCEPT
                     !.bufs = Append(@, [j |-> Jit_new, owner |-> t, g |-> g.code,
                                         log |-> <<>>, calls |-> 0, by |-> {}]),
                     !.shared = @ \cup {Len(jobj.bufs) + 1},
                     !.th[t] = [pc |-> "compile", b |-> Len(jobj.bufs) + 1, wx |-> "w"]]
    /\ UNCHANGED <<arch, use_jit, junk, ev, cmp, tp, reported, bin, ctx>>

\* make_expr -> jit_compile_expr: Jit::new(size), with JitMemory::new's
\* make_writable.  g is the code compile is going to emit.
pool_new(t) ==
    /\ jobj.ph = "pool" /\ jobj.th[t].pc = "idle" /\ Len(jobj.bufs) < MaxBufs
    /\ \E k \in 1..Len(PoolExprs) :
       \E g \in {jit_compile_expr(arch, PoolExprs[k])} :
          jobj' = [jobj EXCEPT
                     !.bufs = Append(@, [j |-> Jit_new, owner |-> t, g |-> g.code,
                                         log |-> <<>>, calls |-> 0, by |-> {}]),
                     !.th[t] = [pc |-> "compile", b |-> Len(jobj.bufs) + 1, wx |-> "w"]]
    /\ UNCHANGED <<arch, use_jit, junk, ev, cmp, tp, reported, bin, ctx>>

\* jit.compile(e): the next emit_u8 / emit_u32 / emit_u64 into the buffer.
pool_emit(t) ==
    /\ jobj.ph = "pool" /\ jobj.th[t].pc = "compile"
    /\ \E b \in {jobj.th[t].b} :
       \E n \in {Len(jobj.bufs[b].j.code) + 1} :
          jobj' = [jobj EXCEPT
                     !.bufs[b].j.code = Append(@, jobj.bufs[b].g[n]),
                     !.bufs[b].log = Append(@, IF CanWrite(jobj.os, jobj.th[t])
                                               THEN "write" ELSE "fault"),
                     !.th[t].pc = IF n = Len(jobj.bufs[b].g) THEN "flush" ELSE "compile"]
    /\ UNCHANGED <<arch, use_jit, junk, ev, cmp, tp, reported, bin, ctx>>

\* jit.finalize(), first line: self.memory.flush().
pool_flush(t) ==
    /\ jobj.ph = "pool" /\ jobj.th[t].pc = "flush"
    /\ jobj' = [jobj EXCEPT !.bufs[jobj.th[t].b].log = Append(@, "flush"),
                            !.th[t].pc = "exec"]
    /\ UNCHANGED <<arch, use_jit, junk, ev, cmp, tp, reported, bin, ctx>>

\* jit.finalize(), second line: self.memory.make_executable().
pool_make_executable(t) ==
    /\ jobj.ph = "pool" /\ jobj.th[t].pc = "exec"
    /\ jobj' = [jobj EXCEPT !.bufs[jobj.th[t].b].log = Append(@, "make_executable"),
                            !.th[t].pc = "cache", !.th[t].wx = "x"]
    /\ UNCHANGED <<arch, use_jit, junk, ev, cmp, tp, reported, bin, ctx>>

\* jit.finalize(), third line: self.cached_func = Some(ptr).
pool_cache(t) ==
    /\ jobj.ph = "pool" /\ jobj.th[t].pc = "cache"
    /\ \E b \in {jobj.th[t].b} :
          jobj' = [jobj EXCEPT !.bufs[b].j = Jit_finalize(jobj.bufs[b].j),
                               !.bufs[b].log = Append(@, "cache"),
                               !.th[t].pc = "return"]
    /\ UNCHANGED <<arch, use_jit, junk, ev, cmp, tp, reported, bin, ctx>>

\* make_expr returns e with jit: Some(Arc::new(jit)); from here on the
\* expression can reach the other threads (a cache, a collected Vec).
pool_return(t) ==
    /\ jobj.ph = "pool" /\ jobj.th[t].pc = "return"
    /\ jobj' = [jobj EXCEPT !.shared = @ \cup {jobj.th[t].b},
                            !.th[t].pc = "idle", !.th[t].b = 0]
    /\ UNCHANGED <<arch, use_jit, junk, ev, cmp, tp, reported, bin, ctx>>

\* A thread calls the function of an expression it can reach (eq, hash,
\* eval_jit): jit.func(), then the call through the pointer.
pool_call(t) ==
    /\ jobj.ph = "pool" /\ jobj.th[t].pc = "idle"
    /\ \E b \in jobj.shared :
          /\ jobj.bufs[b].calls < MaxCalls
          /\ \E r \in {Jit_func(jobj.bufs[b].j)} :
                jobj' = [jobj EXCEPT
                           !.bufs[b].calls = @ + 1,
                           !.bufs[b].by = @ \cup {t},
                           !.bufs[b].log = Append(@, IF r.panic # "" THEN "panic"
                                                     ELSE IF CanRun(jobj.os, jobj.th[t])
                                                     THEN "call" ELSE "fault")]
    /\ UNCHANGED <<arch, use_jit, junk, ev, cmp, tp, reported, bin, ctx>>

NextPool ==
    \E t \in Threads :
        \/ pool_new(t) \/ pool_emit(t) \/ pool_flush(t) \/ pool_make_executable(t)
        \/ pool_cache(t) \/ pool_return(t) \/ pool_call(t)
SpecPool == InitPool /\ [][NextPool]_vars

\* The events of a finalize, in the order the claim gives.
FinalizeLog == <<"flush", "make_executable", "cache">>

\* The log is writes, then the finalize, then calls, or a prefix of that.
InOrder(buf) ==
    LET w == Len(SelectSeq(buf.log, LAMBDA x : x = "write"))
        c == Len(SelectSeq(buf.log, LAMBDA x : x = "call"))
        f == Len(buf.log) - w - c
    IN  /\ f \in 0..Len(FinalizeLog)
        /\ buf.log = [i \in 1..w |-> "write"] \o SubSeq(FinalizeLog, 1, f)
                        \o [i \in 1..c |-> "call"]
        /\ c > 0 => f = Len(FinalizeLog)
        /\ f > 0 => buf.j.code = buf.g

\* C24: for every buffer and every interleaving of the threads: all code
\* is written before finalize starts, finalize flushes, then makes the
\* memory executable, then caches the pointer, nothing is written after
\* that, and no thread calls the function before finalize has completed.
C24_WriteFinalizeCall ==
    jobj.ph = "pool" => \A b \in 1..Len(jobj.bufs) : InOrder(jobj.bufs[b])

\* A buffer written and finalized by one thread has been called by both
\* threads, and the other thread is now in the middle of writing its own.
C24_Witness ==
    /\ jobj.ph = "pool"
    /\ \E b \in jobj.shared, c \in 1..Len(jobj.bufs) : \E t \in Threads :
          /\ jobj.bufs[b].calls = MaxCalls
          /\ jobj.bufs[b].log[Len(jobj.bufs[b].log)] = "call"
          /\ jobj.bufs[b].by = Threads
          /\ jobj.bufs[c].owner # jobj.bufs[b].owner
          /\ jobj.th[t].pc = "compile" /\ jobj.th[t].b = c
          /\ jobj.bufs[c].j.code # <<>>

(***************************************************************************)
(* SpecReg: make_expr over operands of every shape the enumerator and      *)
(* dfs_search can reach within MAX_CACHE_LENGTH, each node compiled as it  *)
(* is made.                                                                *)
(***************************************************************************)
\* The operands a node is made from besides the one in hand: a variable, a
\* literal, ++ on a variable, and one binary node.
RegOperands ==
    << var_x(TRUE), lit(2, TRUE),
       make_expr(None, var_y(TRUE), -1, Operator.PostInc, TRUE),
       make_expr(var_x(TRUE), var_y(TRUE), -1, Operator.BitAnd, TRUE) >>

\* One operator of each width and rank the rules use.
RegBinary == {Operator.BitOr, Operator.BitXor, Operator.BitShl}
RegUnary  == {Operator.Neg, Operator.Parens}
RegAssign == {Operator.AssignEq, Operator.BitShlEq}

\* gen_expr of the build's target.
gen_expr(a, e, regind) ==
    IF a = "x86_64" THEN x86_gen_expr(e, regind) ELSE a64_gen_expr(e, regind)

\* FREE_REGS.len() of the build's target.
FreeCount(a) == IF a = "x86_64" THEN Len(x86_FREE_REGS) ELSE Len(a64_FREE_REGS)

\* The node e as make_expr leaves it: its length, whether it is a statement,
\* and what jit.compile(&e) produced.
Compiled(a, e, stmt) == [ph |-> "reg", e |-> e, stmt |-> stmt, g |-> jit_compile_expr(a, e)]

InitReg ==
    /\ arch \in Archs
    /\ use_jit = TRUE
    /\ junk = 0
    /\ \E k \in 1..Len(RegOperands) : ev = Compiled(arch, RegOperands[k], FALSE)
    /\ cmp = IdleCmp /\ tp = IdleTp /\ reported = {} /\ bin = IdleBin /\ ctx = IdleCtx /\ jobj = IdleJit

\* make_expr(Some(e_l), Some(e_r), -1, bin_op.op) with the node in hand as
\* right or as left operand.
make_binary ==
    /\ ev.ph = "reg" /\ ~ev.stmt
    /\ \E op \in RegBinary, k \in 1..Len(RegOperands), right \in BOOLEAN :
       \E e \in {IF right THEN make_expr(RegOperands[k], ev.e, -1, op, TRUE)
                 ELSE make_expr(ev.e, RegOperands[k], -1, op, TRUE)} :
          /\ SynLen(e) <= MAX_CACHE_LENGTH
          /\ ev' = Compiled(arch, e, FALSE)
    /\ UNCHANGED <<arch, use_jit, junk, cmp, tp, reported, bin, ctx, jobj>>

\* make_expr(None, Some(e_r), -1, op) for a unary operator or brackets.
make_unary ==
    /\ ev.ph = "reg" /\ ~ev.stmt
    /\ \E op \in RegUnary :
       \E e \in {make_expr(None, ev.e, -1, op, TRUE)} :
          /\ SynLen(e) <= MAX_CACHE_LENGTH
          /\ ev' = Compiled(arch, e, FALSE)
    /\ UNCHANGED <<arch, use_jit, junk, cmp, tp, reported, bin, ctx, jobj>>

\* make_statement(var_x, expr, op), in gen_statements and in dfs_search.
make_stmt ==
    /\ ev.ph = "reg" /\ ~ev.stmt
    /\ \E op \in RegAssign :
          ev' = Compiled(arch, make_statement(var_x(TRUE), ev.e, op, TRUE), TRUE)
    /\ UNCHANGED <<arch, use_jit, junk, cmp, tp, reported, bin, ctx, jobj>>

NextReg == make_binary \/ make_unary \/ make_stmt
SpecReg == InitReg /\ [][NextReg]_vars

RECURSIVE RegSteps(_, _, _)
\* Generating e from regind r stays inside FREE_REGS and leaves r + 1, and
\* so does every operand of e from the index it is generated at.
RegSteps(a, e, r) ==
    /\ r < FreeCount(a)
    /\ \E g \in {gen_expr(a, e, r)} : g.ok /\ g.regind = r + 1
    /\ (e.left # None /\ ~is_assignment(e)) =>
          /\ RegSteps(a, e.left, r)
          /\ RegSteps(a, e.right, r + 1)
    /\ (e.right # None /\ (e.left = None \/ is_assignment(e))
          /\ e.op \notin {Operator.PreInc, Operator.PreDec, Operator.PostInc, Operator.PostDec})
          => RegSteps(a, e.right, r)

RECURSIVE RegPeak(_)
\* The largest value regind takes while e is generated from 0.
RegPeak(e) ==
    IF e.left # None /\ ~is_assignment(e)
    THEN LET l == RegPeak(e.left)
             r == 1 + RegPeak(e.right)
         IN  IF l > r THEN l ELSE r
    ELSE IF e.right # None /\ e.op \notin {Operator.PreInc, Operator.PreDec,
                                          Operator.PostInc, Operator.PostDec}
    THEN RegPeak(e.right)
    ELSE 1

\* C25: while anything of right-hand length up to MAX_CACHE_LENGTH is
\* compiled, regind stays within FREE_REGS (at most 4 on x86-64, 7 on
\* AArch64), every subexpression raises it by exactly one, and it is 1
\* when compile emits the return.
C25_RegindInBounds ==
    ev.ph = "reg" =>
        /\ ev.g.ok
        /\ ev.g.regind = 1
        /\ RegSteps(arch, ev.e, 0)
        /\ RegPeak(ev.e) <= FreeCount(arch)

\* x = x|x^x&y: four values are live at the innermost operand, which is
\* every free register of x86-64.
C25_Witness ==
    /\ ev.ph = "reg" /\ arch = "x86_64" /\ ev.stmt
    /\ SynLen(ev.e.right) = MAX_CACHE_LENGTH
    /\ RegPeak(ev.e) = Len(x86_FREE_REGS)
    /\ ev.g.ok /\ ev.g.regind = 1

(***************************************************************************)
(* SpecRun: main from the first search_cached to the last dfs_search, over *)
(* a context that holds a few of the expressions of the odd lengths.       *)
(***************************************************************************)
\* The target the run is modelled for: the one whose compiled code returns
\* from every call.
RunArch == "aarch64"

\* ctx.expressions as the searches find it: y, y-x and y-x+y-x of the real
\* sets, by length.
RunExprs(j) ==
    LET x  == var_x(j)
        y  == var_y(j)
        e3 == binary(Operator.Sub, y, x, j)
    IN  [n \in 1..MAX_CACHE_LENGTH |->
            IF n = 1 THEN << y >>
            ELSE IF n = 3 THEN << e3 >>
            ELSE IF n = MAX_CACHE_LENGTH
            THEN << binary(Operator.Sub, binary(Operator.Add, e3, y, j), x, j) >>
            ELSE <<>>]

RECURSIVE cache_all(_, _, _, _)
\* cache_expression(&mut sn, c) for every candidate in turn: HashSet::insert
\* keeps c unless a member has its hash and is equal to it.
cache_all(a, cands, k, sn) ==
    IF k > Len(cands) THEN sn
    ELSE IF \E m \in 1..Len(sn) :
               /\ hash(a, sn[m], 0).feed = hash(a, cands[k], 0).feed
               /\ eq(a, sn[m], cands[k], 0).v
    THEN cache_all(a, cands, k + 1, sn)
    ELSE cache_all(a, cands, k + 1, Append(sn, cands[k]))

RECURSIVE StatementsUpTo(_, _)
\* ctx.statements after gen_statements(1..n).
StatementsUpTo(j, n) ==
    IF n = 0 THEN <<>>
    ELSE Append(StatementsUpTo(j, n - 1),
                cache_all(RunArch, gen_statement_candidates(RunExprs(j), var_x(j), n, j),
                          1, <<>>))

\* The statements of length n of the run: ctx.statements[n] up to
\* MAX_CACHE_LENGTH, and what dfs_search(n) synthesizes beyond it (for
\* expr_len, for expr, gen_stmts_for_expr).
StatementsOfLength(c, j, n) ==
    IF n <= MAX_CACHE_LENGTH THEN c.statements[n]
    ELSE Flatten([m \in 1..MAX_CACHE_LENGTH |->
             Flatten([k \in 1..Len(c.expressions[m]) |->
                 gen_stmts_for_expr(var_x(j), c.expressions[m][k], m, n, j)])])

\* A statement of the run is named by its length and its place among the
\* statements of that length.
StmtIds(c, j, n) == [k \in 1..Len(StatementsOfLength(c, j, n)) |-> <<n, k>>]
StmtAt(c, j, id) == StatementsOfLength(c, j, id[1])[id[2]]

\* The cached statements of lengths 1..n in the order of the loops over n_x
\* and stmts_x (and of cached_stmts_y).
CachedIds(c, j, n) == Flatten([m \in 1..n |-> StmtIds(c, j, m)])

\* The statements the outer loop (xs) and the inner loops (ys) of the n-th
\* call of main run over: search_cached(n) for n = 1..MAX_CACHE_LENGTH,
\* then dfs_search(n) up to MAX_LENGTH, stmt_x against cached_stmts_y and
\* then against the synthesized stmts_y.
CallLoops(c, j, n) ==
    IF n <= MAX_CACHE_LENGTH
    THEN [xs |-> CachedIds(c, j, n), ys |-> CachedIds(c, j, n)]
    ELSE [xs |-> StmtIds(c, j, n),
          ys |-> CachedIds(c, j, MAX_CACHE_LENGTH) \o StmtIds(c, j, n)]

RECURSIVE test_pair_with_init(_, _, _, _, _, _, _)
\* test_pair_with_init from the i-th element of ANSWER on.
test_pair_with_init(a, uj, e_x, e_y, x, y, i) ==
    IF i = Len(ANSWER) THEN TRUE
    ELSE \E r \in {eval_step(a, uj, e_x, e_y, x, y, 0)} :
            /\ r.st = "ret" /\ r.ok /\ match_one(i, r.x)
            /\ test_pair_with_init(a, uj, e_x, e_y, r.x, r.y, i + 1)

RECURSIVE test_pair_from(_, _, _, _, _)
\* test_pair from the q-th initial values on: Some at the first that match.
test_pair_from(a, uj, e_x, e_y, q) ==
    IF q > Len(InitValues) THEN [some |-> FALSE, init_x |-> 0, init_y |-> 0]
    ELSE IF test_pair_with_init(a, uj, e_x, e_y, InitValues[q][1], InitValues[q][2], 0)
    THEN [some |-> TRUE, init_x |-> InitValues[q][1], init_y |-> InitValues[q][2]]
    ELSE test_pair_from(a, uj, e_x, e_y, q + 1)

test_pair(a, uj, e_x, e_y) == test_pair_from(a, uj, e_x, e_y, 1)

RECURSIVE RunPlace(_, _, _, _, _)
\* The loops at call n, stmt_x number i, stmt_y number j, or where they
\* next have a pair when there is none there; "done" after the last call.
RunPlace(c, uj, n, i, j) ==
    IF n > MAX_LENGTH THEN [ph |-> "done", n |-> MAX_LENGTH, i |-> 0, j |-> 0]
    ELSE IF i > Len(CallLoops(c, uj, n).xs) THEN RunPlace(c, uj, n + 1, 1, 1)
    ELSE IF j > Len(CallLoops(c, uj, n).ys) THEN RunPlace(c, uj, n, i + 1, 1)
    ELSE [ph |-> "run", n |-> n, i |-> i, j |-> j]

\* The search at a place of its loops, and the pairs test_pair has been
\* called for so far.
RunAt(at, tested) == [ph |-> at.ph, n |-> at.n, i |-> at.i, j |-> at.j, tested |-> tested]

\* The context as phase 1 leaves it, searched from the first call on.
InitRun ==
    /\ arch = RunArch
    /\ use_jit \in BOOLEAN
    /\ junk = 0
    /\ ctx = [ph |-> "cached", expressions |-> RunExprs(use_jit),
              statements |-> StatementsUpTo(use_jit, MAX_CACHE_LENGTH)]
    /\ tp = RunAt(RunPlace(ctx, use_jit, 1, 1, 1), {})
    /\ reported = {}
    /\ ev = IdleEv /\ cmp = IdleCmp /\ bin = IdleBin /\ jobj = IdleJit

\* The body of the innermost loop: test_pair, print_result on Some, and on
\* to the next pair.
TestAndReport ==
    \E loops \in {CallLoops(ctx, use_jit, tp.n)} :
    \E x \in {loops.xs[tp.i]}, y \in {loops.ys[tp.j]} :
    \E r \in {test_pair(arch, use_jit, StmtAt(ctx, use_jit, x), StmtAt(ctx, use_jit, y))} :
       /\ reported' = IF r.some
                      THEN reported \cup {[n |-> tp.n, x |-> x, y |-> y,
                                           init_x |-> r.init_x, init_y |-> r.init_y]}
                      ELSE reported
       /\ tp' = RunAt(RunPlace(ctx, use_jit, tp.n, tp.i, tp.j + 1),
                      tp.tested \cup {<<x, y>>})

\* search_cached(ctx, n): one pair of cached statements.
search_cached_pair ==
    /\ tp.ph = "run" /\ tp.n <= MAX_CACHE_LENGTH
    /\ TestAndReport
    /\ UNCHANGED <<arch, use_jit, junk, ev, cmp, bin, ctx, jobj>>

\* dfs_search(ctx, target_n): one synthesized stmt_x against one stmt_y.
dfs_search_pair ==
    /\ tp.ph = "run" /\ tp.n > MAX_CACHE_LENGTH
    /\ TestAndReport
    /\ UNCHANGED <<arch, use_jit, junk, ev, cmp, bin, ctx, jobj>>

NextRun == search_cached_pair \/ dfs_search_pair
SpecRun == InitRun /\ [][NextRun]_vars

\* The statements of the run of lengths lo..hi.
IdsOfLengths(lo, hi) ==
    UNION {{StmtIds(ctx, use_jit, n)[k] : k \in 1..Len(StmtIds(ctx, use_jit, n))} : n \in lo..hi}

\* C27: over a full run each matching pair (S_x, S_y) is emitted at most
\* once: a pair of cached statements that search_cached reported at
\* length n is not reported again by search_cached at a later length.
C27_ReportedOnce ==
    ctx.ph = "cached" =>
        \A r1 \in reported, r2 \in reported : (r1.x = r2.x /\ r1.y = r2.y) => r1.n = r2.n

\* The run has ended and the pair x+=y; x=y-x, found by search_cached(4)
\* with x = 0 and y = 1, was reported by every later search_cached as well.
C27_ReportedAtEveryLength ==
    /\ ctx.ph = "cached" /\ tp.ph = "done"
    /\ \E r \in reported :
          /\ StmtAt(ctx, use_jit, r.x).op = Operator.AddEq
          /\ StmtAt(ctx, use_jit, r.y).right.op = Operator.Sub
          /\ r.init_x = 0 /\ r.init_y = 1
          /\ \A n \in 4..MAX_CACHE_LENGTH : [r EXCEPT !.n = n] \in reported
          /\ \A n \in (1..3) \cup ((MAX_CACHE_LENGTH + 1)..MAX_LENGTH) :
                [r EXCEPT !.n = n] \notin reported

\* C28: by the end of a run every ordered pair (S_x, S_y) of statements
\* that are cached or synthesized by dfs_search has been tested at least
\* once: a cached S_x with every synthesized S_y, and a synthesized S_x of
\* one length with the synthesized S_y of every other length.
C28_EveryPairTested ==
    (ctx.ph = "cached" /\ tp.ph = "done") =>
        \A x \in IdsOfLengths(1, MAX_LENGTH), y \in IdsOfLengths(1, MAX_LENGTH) :
            <<x, y>> \in tp.tested

\* The pairs a run does test: cached with cached, and synthesized S_x with
\* cached S_y and with synthesized S_y of its own length.
C28_PairsTested ==
    (ctx.ph = "cached" /\ tp.ph = "done") =>
        tp.tested =
            (IdsOfLengths(1, MAX_CACHE_LENGTH) \X IdsOfLengths(1, MAX_CACHE_LENGTH))
            \cup UNION {IdsOfLengths(n, n) \X (IdsOfLengths(1, MAX_CACHE_LENGTH)
                                                \cup IdsOfLengths(n, n)) :
                        n \in (MAX_CACHE_LENGTH + 1)..MAX_LENGTH}

\* The run has ended with statements synthesized at two lengths, and no
\* cached S_x was tested with a synthesized S_y, nor a synthesized S_x with
\* a synthesized S_y of another length.
C28_NeverTested ==
    /\ ctx.ph = "cached" /\ tp.ph = "done"
    /\ \E n \in (MAX_CACHE_LENGTH + 1)..MAX_LENGTH, m \in (MAX_CACHE_LENGTH + 1)..MAX_LENGTH :
          /\ n # m /\ IdsOfLengths(n, n) # {} /\ IdsOfLengths(m, m) # {}
          /\ \A x \in IdsOfLengths(n, n), y \in IdsOfLengths(m, m) : <<x, y>> \notin tp.tested
    /\ \A x \in IdsOfLengths(1, MAX_CACHE_LENGTH),
          y \in IdsOfLengths(MAX_CACHE_LENGTH + 1, MAX_LENGTH) : <<x, y>> \notin tp.tested

(***************************************************************************)
(* SpecPrint: print_result called by the workers of the parallel loops of  *)
(* search_cached and dfs_search, one write to stdout at a time.            *)
(***************************************************************************)
\* The precedence needs_parens gives an operator.
prec(op) ==
    IF op = Operator.Or THEN 1
    ELSE IF op = Operator.And THEN 2
    ELSE IF op = Operator.BitOr THEN 3
    ELSE IF op = Operator.BitXor THEN 4
    ELSE IF op = Operator.BitAnd THEN 5
    ELSE IF op \in {Operator.Eq, Operator.Neq} THEN 6
    ELSE IF op \in {Operator.Lt, Operator.Leq, Operator.Gt, Operator.Geq} THEN 7
    ELSE IF op \in {Operator.BitShl, Operator.BitShr} THEN 8
    ELSE IF op \in {Operator.Add, Operator.Sub} THEN 9
    ELSE IF op \in {Operator.Mul, Operator.Div, Operator.Mod} THEN 10
    ELSE IF op = Operator.Pow THEN 11
    ELSE 100

\* needs_parens(child_op, parent_op, is_right).
needs_parens(child_op, parent_op, is_right) ==
    IF parent_op < \h10 THEN FALSE
    ELSE IF prec(child_op) < prec(parent_op) THEN TRUE
    ELSE parent_op = Operator.Pow /\ ~is_right /\ prec(child_op) = prec(parent_op)

\* What one print! call writes: its text, and the operator or the literal
\* where the text stands for one.
Frag(s, n) == [s |-> s, n |-> n]

\* print_node: one print! call, none for PostInc and PostDec.
print_node(e, var_names) ==
    IF e.op \in {Operator.PostInc, Operator.PostDec} THEN <<>>
    ELSE IF e.op = Operator.Parens THEN << Frag("(", e.op) >>
    ELSE IF e.op = Operator.Literal THEN << Frag("literal", e.literal) >>
    ELSE IF e.op \in {Operator.Var, Operator.VarY}
    THEN (IF (e.op % 16) < Len(var_names)
          THEN << Frag(var_names[(e.op % 16) + 1], e.op) >> ELSE <<>>)
    ELSE << Frag("op", e.op) >>

RECURSIVE print_expr_with_parent(_, _, _, _)
\* print_expr_with_parent: the print! calls it makes, in order; parent_op
\* is -1 for None.
print_expr_with_parent(e, var_names, parent_op, is_right) ==
    LET wrap == parent_op # -1 /\ needs_parens(e.op, parent_op, is_right)
    IN  (IF wrap THEN << Frag("(", -1) >> ELSE <<>>)
        \o (IF e.left # None
            THEN print_expr_with_parent(e.left, var_names, e.op, FALSE) ELSE <<>>)
        \o print_node(e, var_names)
        \o (IF e.right # None
            THEN print_expr_with_parent(e.right, var_names, e.op, TRUE)
                 \o (IF e.op = Operator.Parens THEN << Frag(")", e.op) >> ELSE <<>>)
            ELSE <<>>)
        \o (IF e.op = Operator.PostInc THEN << Frag("++", e.op) >> ELSE <<>>)
        \o (IF e.op = Operator.PostDec THEN << Frag("--", e.op) >> ELSE <<>>)
        \o (IF wrap THEN << Frag(")", -1) >> ELSE <<>>)

print_expression(e, var_names) == print_expr_with_parent(e, var_names, -1, FALSE)

\* The write print_result makes while it holds the lock of stdout.
print_result_prefix(init_x, init_y) == [s |-> "x=, y= : ", x |-> init_x, y |-> init_y]

\* The print! and println! calls print_result makes after it dropped the
\* lock, each taking the lock of stdout for itself.
print_result_rest(e_x, e_y) ==
    print_expression(e_x, <<"x", "y">>)
    \o << Frag("; ", -1) >>
    \o print_expression(e_y, <<"y", "x">>)
    \o << Frag("newline", -1) >>

\* A call of print_result: the pair and the initial values test_pair gave.
PrintCall(e_x, e_y, init_x, init_y) ==
    [e_x |-> e_x, e_y |-> e_y, init_x |-> init_x, init_y |-> init_y]

\* What two workers of a parallel loop have to report: each one pair; or
\* one of them two pairs, one after the other, x=(y) and x=-(y+x) the
\* statements for x, and the other worker none.
PrintRuns ==
    LET x   == var_x(FALSE)
        y   == var_y(FALSE)
        inc == make_statement(x, y, Operator.AddEq, FALSE)
        set == make_statement(x, y, Operator.AssignEq, FALSE)
        par == make_statement(x, unary(Operator.Parens, y, FALSE), Operator.AssignEq, FALSE)
        neg == make_statement(x, unary(Operator.Neg, binary(Operator.Add, y, x, FALSE), FALSE),
                              Operator.AssignEq, FALSE)
    IN  << << << PrintCall(inc, inc, 1, 0) >>, << PrintCall(inc, set, 0, 1) >> >>,
           << << PrintCall(par, set, 0, 1), PrintCall(neg, inc, 1, 1) >>, <<>> >> >>

Workers == DOMAIN PrintRuns[1]

InitPrint ==
    /\ arch = "x86_64"
    /\ use_jit = FALSE
    /\ junk = 0
    /\ \E r \in DOMAIN PrintRuns :
          jobj = [ph |-> "print", out |-> <<>>,
                  th |-> [t \in Workers |->
                             [pc |-> "test", calls |-> PrintRuns[r][t], c |-> 0, todo |-> <<>>]]]
    /\ ev = IdleEv /\ cmp = IdleCmp /\ tp = IdleTp /\ reported = {} /\ bin = IdleBin /\ ctx = IdleCtx

\* One write of worker t in its c-th call.
Written(t, c, f) == [t |-> t, c |-> c, f |-> f]

\* Worker t enters print_result for the pair test_pair returned Some for:
\* stdout.lock(), write! of the prefix, drop(lock).
print_result_enter(t) ==
    /\ jobj.ph = "print"
    /\ jobj.th[t].pc = "test"
    /\ jobj.th[t].c < Len(jobj.th[t].calls)
    /\ \E p \in {jobj.th[t].calls[jobj.th[t].c + 1]} :
          jobj' = [jobj EXCEPT
                     !.out = Append(@, Written(t, jobj.th[t].c + 1,
                                               print_result_prefix(p.init_x, p.init_y))),
                     !.th[t] = [@ EXCEPT !.pc = "print", !.c = @ + 1,
                                         !.todo = print_result_rest(p.e_x, p.e_y)]]
    /\ UNCHANGED <<arch, use_jit, junk, ev, cmp, tp, reported, bin, ctx>>

\* The next print! or println! of worker t; after println! print_result
\* returns to the loop.
print_result_write(t) ==
    /\ jobj.ph = "print"
    /\ jobj.th[t].pc = "print"
    /\ jobj' = [jobj EXCEPT
                  !.out = Append(@, Written(t, jobj.th[t].c, Head(jobj.th[t].todo))),
                  !.th[t] = [@ EXCEPT !.todo = Tail(@),
                                      !.pc = IF Len(jobj.th[t].todo) = 1 THEN "test"
                                             ELSE "print"]]
    /\ UNCHANGED <<arch, use_jit, junk, ev, cmp, tp, reported, bin, ctx>>

NextPrint ==
    \/ \E t \in Workers : print_result_enter(t)
    \/ \E t \in Workers : print_result_write(t)
SpecPrint == InitPrint /\ [][NextPrint]_vars

\* The places in the output of the writes of worker t in its c-th call.
PlacesOf(out, t, c) == {i \in 1..Len(out) : out[i].t = t /\ out[i].c = c}

\* The writes of the call are next to each other in the output.
Contiguous(out, t, c) ==
    \A i \in PlacesOf(out, t, c), j \in PlacesOf(out, t, c) :
        \A k \in i..j : k \in PlacesOf(out, t, c)

\* C30: the output of each print_result call is one contiguous line:
\* the fragments of two calls running at the same time never interleave.
C30_LinesContiguous ==
    jobj.ph = "print" =>
        \A t \in Workers : \A c \in 1..jobj.th[t].c : Contiguous(jobj.out, t, c)

\* What does hold: the calls of one worker follow each other, each one's
\* writes in the order prefix, S_x, "; ", S_y, newline.
C30_EachWorkerInOrder ==
    jobj.ph = "print" =>
        \A t \in Workers :
            \E mine \in {SelectSeq(jobj.out, LAMBDA w : w.t = t)} :
                /\ \A i \in 1..(Len(mine) - 1) : mine[i].c <= mine[i + 1].c
                /\ \A c \in 1..jobj.th[t].c :
                      \E p \in {jobj.th[t].calls[c]},
                         got \in {SelectSeq(mine, LAMBDA w : w.c = c)} :
                         \E all \in {<< print_result_prefix(p.init_x, p.init_y) >>
                                     \o print_result_rest(p.e_x, p.e_y)} :
                            /\ Len(got) <= Len(all)
                            /\ \A i \in 1..Len(got) : got[i].f = all[i]

\* Both workers have returned from print_result, and the line of one of
\* them has a write of the other inside it.
C30_Interleaved ==
    /\ jobj.ph = "print"
    /\ \A t \in Workers : jobj.th[t].pc = "test" /\ jobj.th[t].c = Len(jobj.th[t].calls)
    /\ \E t \in Workers : jobj.th[t].c = 1 /\ ~Contiguous(jobj.out, t, 1)

Init == InitEval
Next == NextEval
Spec == SpecEval
=============================================================================
